---- MODULE Spec2Model ----
(***************************************************************************)
(* A model of the indexing pipeline of the type checker: the interned name *)
(* table (core/Names.cc), the per-file indexer, the parse-tree cache and   *)
(* the parallel indexer coordinator (main/pipeline/pipeline.cc).           *)
(*                                                                         *)
(* NameRefs are indexes into a global state's name vector.  This model     *)
(* numbers them from 1; NameRef 0 is the non-existing name.                *)
(***************************************************************************)
EXTENDS Integers, Sequences, FiniteSets, TLC

(***************************************************************************)
(* Bounds of the model.                                                    *)
(***************************************************************************)
\* the longest name table the name-table specification grows
MaxNames == 3

\* spellings the callers intern
Utf8Pool == {"a", "b"}
\* derivation contexts (UniqueNameKind) used by the callers of this model
UniqueKindPool == {"Desugar", "ResolverMissingClass"}
\* the `num`s the callers derive UNIQUE names with
NumPool == {1, 2}

VARIABLES
    gss,         \* the global states: the base one and its deep copies
    debug_mode,  \* the build: TRUE when ENFORCE is compiled in
    halted,      \* a fatal contract violation ended the process
    call,        \* the last name-table call and what it returned
    opts,        \* the options of the run
    kvstore,     \* the parse-tree cache: key -> serialized tree
    fileq,       \* the queue of FileRefs the workers pop from
    resultq,     \* the queue of worker results the coordinator pops from
    wk,          \* the workers of the pool: where each is and what it holds
    co,          \* the caller of index and the coordinator's locals
    errorQueue,  \* the diagnostics reported so far
    hist         \* what was observed: the phases run on each file, earlier results

nameVars == <<gss, debug_mode, halted, call>>

indexVars == <<opts, kvstore, fileq, resultq, wk, co, errorQueue, hist>>

vars == <<gss, debug_mode, halted, call, opts, kvstore, fileq, resultq, wk, co, errorQueue, hist>>

\* the one element of a set, and a value computed once and given to what
\* follows
The(S) == CHOOSE v \in S : TRUE

Bind(v, F(_)) == The({F(b) : b \in {v}})

(***************************************************************************)
(* Names (core/Names.h, core/Names.cc).                                    *)
(***************************************************************************)
NoGs == [exists |-> FALSE]

UTF8Name(bytes) ==
    [kind |-> "UTF8", utf8 |-> bytes, uniqueNameKind |-> "-", num |-> 0, original |-> 0]

UniqueName(uk, original, num) ==
    [kind |-> "UNIQUE", utf8 |-> "", uniqueNameKind |-> uk, num |-> num, original |-> original]

ConstantName(original) ==
    [kind |-> "CONSTANT", utf8 |-> "", uniqueNameKind |-> "-", num |-> 0, original |-> original]

\* the letter showRaw prints for a UniqueNameKind
UniqueKindLetter(uk) ==
    CASE uk = "Parser" -> "P"
      [] uk = "Desugar" -> "D"
      [] uk = "Namer" -> "N"
      [] uk = "MangleRename" -> "M"
      [] uk = "Singleton" -> "S"
      [] uk = "Overload" -> "O"
      [] uk = "TypeVarName" -> "T"
      [] uk = "PositionalArg" -> "A"
      [] uk = "MangledKeywordArg" -> "K"
      [] uk = "ResolverMissingClass" -> "R"

\* Name::showRaw: the textual form of name `id` of table `names`, taken
\* recursively through `original`
RECURSIVE showRaw(_, _)
showRaw(names, id) ==
    LET nm == names[id] IN
    CASE nm.kind = "UTF8" -> "<U " \o nm.utf8 \o ">"
      [] nm.kind = "UNIQUE" ->
            "<" \o UniqueKindLetter(nm.uniqueNameKind) \o " "
                \o showRaw(names, nm.original) \o " $" \o ToString(nm.num) \o ">"
      [] nm.kind = "CONSTANT" -> "<C " \o showRaw(names, nm.original) \o ">"

\* Name::hash: the fields a name is hashed on, per kind
NameHash(nm) ==
    CASE nm.kind = "UTF8" -> <<"UTF8", nm.utf8, "-", 0, 0>>
      [] nm.kind = "UNIQUE" -> <<"UNIQUE", "", nm.uniqueNameKind, nm.num, nm.original>>
      [] nm.kind = "CONSTANT" -> <<"CONSTANT", "", "-", 0, nm.original>>

\* Name::deepCopy: the copy of a name for the table of a sibling state; the
\* `original` reference keeps its id
NameDeepCopyBadOriginal(nm) ==
    CASE nm.kind = "UTF8" -> nm
      [] nm.kind = "UNIQUE" -> UniqueName(nm.uniqueNameKind, nm.original + 1, nm.num)
      [] nm.kind = "CONSTANT" -> ConstantName(nm.original + 1)

NameDeepCopy(nm) ==
    CASE nm.kind = "UTF8" -> UTF8Name(nm.utf8)
      [] nm.kind = "UNIQUE" -> UniqueName(nm.uniqueNameKind, nm.original, nm.num)
      [] nm.kind = "CONSTANT" -> ConstantName(nm.original)

(***************************************************************************)
(* The name table of a global state (core/GlobalState: enterNameUTF8,      *)
(* enterNameConstant, freshNameUnique).  A call looks the name up by the   *)
(* fields Name::hash mixes; when it is absent the table must be unfrozen   *)
(* (ENFORCE), and the name is appended.  `ub` is what a contract violation *)
(* does in this build: "abort" (ENFORCE compiled in: fatal), "add" or      *)
(* "none" (ENFORCE compiled out: undefined).                               *)
(***************************************************************************)
MinOf(S) == CHOOSE x \in S : \A y \in S : x <= y

LookupName(names, nm) ==
    LET found == {i \in 1..Len(names) : NameHash(names[i]) = NameHash(nm)} IN
    IF found = {} THEN 0 ELSE MinOf(found)

EnterNameAlwaysAppends(gs, nm, ub) ==
    [gs |-> [gs EXCEPT !.names = Append(@, nm)], ref |-> Len(gs.names) + 1,
     violation |-> FALSE]

EnterNameChecksFrozenFirst(gs, nm, ub) ==
    LET found == LookupName(gs.names, nm) IN
    IF gs.nameTableFrozen /\ ub # "add"
    THEN [gs |-> gs, ref |-> 0, violation |-> TRUE]
    ELSE IF found # 0
    THEN [gs |-> gs, ref |-> found, violation |-> gs.nameTableFrozen]
    ELSE [gs |-> [gs EXCEPT !.names = Append(@, nm)], ref |-> Len(gs.names) + 1,
          violation |-> gs.nameTableFrozen]

EnterName(gs, nm, ub) ==
    LET found == LookupName(gs.names, nm) IN
    IF found # 0
    THEN [gs |-> gs, ref |-> found, violation |-> FALSE]
    ELSE IF gs.nameTableFrozen /\ ub # "add"
    THEN [gs |-> gs, ref |-> 0, violation |-> TRUE]
    ELSE [gs |-> [gs EXCEPT !.names = Append(@, nm)], ref |-> Len(gs.names) + 1,
          violation |-> gs.nameTableFrozen]

enterNameUTF8(gs, bytes, ub) == EnterName(gs, UTF8Name(bytes), ub)

enterNameConstant(gs, original, ub) == EnterName(gs, ConstantName(original), ub)

freshNameUnique(gs, uk, original, num, ub) == EnterName(gs, UniqueName(uk, original, num), ub)

\* what a contract violation may do in this build
ViolationOutcomes(dbg) == IF dbg THEN {"abort"} ELSE {"add", "none"}

(***************************************************************************)
(* Name::sanityCheck: re-entering name `id` of the table gives `id` back,  *)
(* a UNIQUE or CONSTANT name is younger than its original, and a UNIQUE    *)
(* name has num > 0.  The check re-enters through the mutators, on a table *)
(* that may be frozen.  Outside debug builds it checks nothing.            *)
(***************************************************************************)
NameSanityCheck(gs, id, dbg) ==
    LET nm == gs.names[id] IN
    \/ ~dbg
    \/ /\ nm.kind = "UTF8"
       /\ enterNameUTF8(gs, nm.utf8, "abort").ref = id
    \/ /\ nm.kind = "UNIQUE"
       /\ nm.original < id
       /\ nm.num > 0
       /\ freshNameUnique(gs, nm.uniqueNameKind, nm.original, nm.num, "abort").ref = id
    \/ /\ nm.kind = "CONSTANT"
       /\ nm.original < id
       /\ enterNameConstant(gs, nm.original, "abort").ref = id

(***************************************************************************)
(* Global states.  deepCopy copies the name table in id order, name by     *)
(* name, and records the fork in the copy's deep-clone history.            *)
(***************************************************************************)
WellKnownNames == <<UTF8Name("a")>>

LAST_WELL_KNOWN_NAME == Len(WellKnownNames)

NewGs(id) ==
    [exists |-> TRUE, globalStateId |-> id, names |-> WellKnownNames,
     nameTableFrozen |-> TRUE, symbolTableFrozen |-> TRUE, fileTableFrozen |-> TRUE,
     deepCloneHistory |-> <<>>, files |-> <<>>, runningUnderAutogen |-> FALSE]

GsDeepCopy(gs, id) ==
    [gs EXCEPT !.globalStateId = id,
               !.names = [i \in 1..Len(gs.names) |-> NameDeepCopy(gs.names[i])],
               !.deepCloneHistory = Append(@, [globalStateId |-> gs.globalStateId,
                                               lastNameKnownByParentGlobalState |-> Len(gs.names) + 1])]

(***************************************************************************)
(* Unfreeze scopes (core/Unfreeze.h): the constructor unfreezes the table  *)
(* and remembers whether it was frozen; the destructor, which runs on      *)
(* every exit from the scope, an exception included, freezes it again only *)
(* if it was frozen.  An execution state `st` carries the global state,    *)
(* the tree in work, whether an exception is in flight, and the log of     *)
(* what ran with the freeze flags after each event.                        *)
(***************************************************************************)
Flags(gs) == <<gs.nameTableFrozen, gs.symbolTableFrozen, gs.fileTableFrozen>>

Ev(st, ev, what) ==
    Bind(st, LAMBDA s : [s EXCEPT !.log = Append(@, [ev |-> ev, what |-> what,
                                                     flags |-> Flags(s.gs)])])

SetFrozen(gs, table, v) ==
    CASE table = "names" -> [gs EXCEPT !.nameTableFrozen = v]
      [] table = "symbols" -> [gs EXCEPT !.symbolTableFrozen = v]
      [] table = "files" -> [gs EXCEPT !.fileTableFrozen = v]

IsFrozen(gs, table) ==
    CASE table = "names" -> gs.nameTableFrozen
      [] table = "symbols" -> gs.symbolTableFrozen
      [] table = "files" -> gs.fileTableFrozen

\* the destructor of a scope that found the table in state `old`
Release(st, table, old) ==
    Ev([st EXCEPT !.gs = IF old THEN SetFrozen(@, table, TRUE) ELSE @], "release", table)

Acquire(st, table) ==
    Ev([st EXCEPT !.gs = SetFrozen(@, table, FALSE)], "acquire", table)

\* { Unfreeze<table> scope(gs); Body }
WithUnfreeze(st, table, Body(_)) ==
    Bind(Body(Acquire(st, table)), LAMBDA left : Release(left, table, IsFrozen(st.gs, table)))

\* a SorbetException leaves the phase
Throw(st, what) == Ev([st EXCEPT !.thrown = TRUE], "throw", what)

\* gs.beginError(loc, what): the diagnostic goes to the error queue
BeginError(st, file, what) ==
    [st EXCEPT !.errors = @ \cup {[file |-> file, what |-> what]}]

(***************************************************************************)
(* The files of the model: what the file system holds at each path, and    *)
(* what the collaborators (parser, desugarer, plugin, DSL passes) make of  *)
(* each source.  A source is named by an id; "" is the empty source.       *)
(***************************************************************************)
Tok(text, form) == [text |-> text, form |-> form]

\* the tokens of a source: spellings and the form each is written in
Tokens(src) ==
    CASE src = "plug" -> <<Tok("b", "ident"), Tok("c", "const")>>
      [] src = "ign" -> <<Tok("c", "ident")>>
      [] src = "two" -> <<Tok("c", "ident"), Tok("b", "temp")>>
      [] src = "gen" -> <<Tok("d", "const"), Tok("b", "ident")>>
      [] src = "gen2" -> <<Tok("a", "const")>>
      [] src = "crash" -> <<Tok("d", "ident")>>
      [] src \in {"crashDsl", "crashLocalVars", "crashPlugin"} -> <<Tok("d", "ident")>>
      [] src = "auto" -> <<Tok("b", "ident")>>
      [] OTHER -> <<>>

\* the strictness sigil written at the top of a source
SigilOf(src) ==
    CASE src = "ign" -> "Ignore"
      [] src = "two" -> "True"
      [] src = "auto" -> "Autogenerated"
      [] OTHER -> "None"

\* the phase in which a source makes its collaborator raise, "none" for most
FailPhase(src) ==
    CASE src = "crashParser" -> "parser"
      [] src = "crash" -> "desugar"
      [] src = "crashPlugin" -> "plugin"
      [] src = "crashDsl" -> "dsl"
      [] src = "crashLocalVars" -> "local_vars"
      [] OTHER -> "none"

\* the source files the subprocess plugin generates for a source
PluginOutput(src) ==
    CASE src = "plug" -> <<[k |-> 1, source |-> "gen"], [k |-> 2, source |-> "crash"]>>
      [] src = "two" -> <<[k |-> 1, source |-> "gen2"]>>
      [] OTHER -> <<>>

\* the path of supplied file i, relative or (every third one) absolute, and
\* of the k-th file generated from it
PathOf(i, k) ==
    [prefix |-> IF k # 0 THEN "./" ELSE IF i % 3 = 0 THEN "/" ELSE "", rest |-> <<i, k>>]

\* opts.fs->readFile: the source at the path of supplied file i
ReadFile(i) ==
    CASE i % 9 = 1 -> "plug"
      [] i % 9 = 2 -> "ign"
      [] i % 9 = 3 -> "two"
      [] i % 9 = 4 -> "NotFound"
      [] i % 9 = 5 -> "crashParser"
      [] i % 9 = 6 -> "crashDsl"
      [] i % 9 = 7 -> "crashLocalVars"
      [] i % 9 = 8 -> "crashPlugin"
      [] OTHER -> "auto"

File(path, source, sourceType) ==
    [path |-> path, source |-> source, sourceType |-> sourceType,
     originalSigil |-> SigilOf(source), strictLevel |-> "None", cachedParseTree |-> FALSE]

(***************************************************************************)
(* decideStrictLevel.                                                      *)
(***************************************************************************)
LevelOrder ==
    <<"None", "Internal", "Ignore", "False", "True", "Strict", "Strong", "Max",
      "Autogenerated", "Stdlib">>

LevelRank(l) == CHOOSE i \in 1..Len(LevelOrder) : LevelOrder[i] = l

LevelMin(a, b) == IF LevelRank(a) <= LevelRank(b) THEN a ELSE b

LevelMax(a, b) == IF LevelRank(a) >= LevelRank(b) THEN a ELSE b

\* a lookup of the path as it is
OverrideKeyUnchanged(path) == path

\* the key looked up in opts.strictnessOverrides
OverrideKey(path) ==
    IF path.prefix # "/" /\ path.prefix # "./"
    THEN [path EXCEPT !.prefix = "./"]
    ELSE path

\* the level before clamping with the sigil taken before the override
SigilOrOverride(gs, file, o) ==
    LET fileData == gs.files[file]
        filePath == OverrideKey(fileData.path) IN
    IF fileData.originalSigil # "None" THEN fileData.originalSigil
    ELSE IF filePath \in DOMAIN o.strictnessOverrides THEN o.strictnessOverrides[filePath]
    ELSE "False"

\* `level` before clamping: the override found for the path, else the
\* sigil, else False
OverrideOrSigil(gs, file, o) ==
    LET fileData == gs.files[file]
        filePath == OverrideKey(fileData.path) IN
    IF filePath \in DOMAIN o.strictnessOverrides
    THEN o.strictnessOverrides[filePath]
    ELSE IF fileData.originalSigil = "None" THEN "False"
    ELSE fileData.originalSigil

\* a clamp of every level but Ignore and Internal
ClampLevelAboveMaxToo(level, o) ==
    IF level \notin {"Ignore", "Internal"}
    THEN LevelMax(LevelMin(level, o.forceMaxStrict), o.forceMinStrict)
    ELSE level

\* if (level <= Max && level > Ignore) level = max(min(level, maxStrict), minStrict)
ClampLevel(level, o) ==
    IF LevelRank(level) <= LevelRank("Max") /\ LevelRank(level) > LevelRank("Ignore")
    THEN LevelMax(LevelMin(level, o.forceMaxStrict), o.forceMinStrict)
    ELSE level

\* a decision that clamps and leaves autogen aside
decideStrictLevelNoAutogen(gs, file, o) == ClampLevel(OverrideOrSigil(gs, file, o), o)

decideStrictLevel(gs, file, o) ==
    IF gs.runningUnderAutogen THEN "False" ELSE ClampLevel(OverrideOrSigil(gs, file, o), o)

\* the diagnostic decideStrictLevel emits for an override equal to the sigil
UselessOverride(gs, file, o) ==
    LET filePath == OverrideKey(gs.files[file].path) IN
    /\ filePath \in DOMAIN o.strictnessOverrides
    /\ o.strictnessOverrides[filePath] = gs.files[file].originalSigil

(***************************************************************************)
(* readFileWithStrictnessOverrides: fills the reserved slot of the file    *)
(* table, under an UnfreezeFileTable scope, and decides the strict level.  *)
(***************************************************************************)
\* if (cond) gs.beginError(loc, what)
ReportIf(st, cond, file, what) == IF cond THEN BeginError(st, file, what) ELSE st

\* if (opts.storeState) the file is payload
MarkStored(st, file, o) ==
    IF o.storeState THEN [st EXCEPT !.gs.files[file].sourceType = "PayloadGeneration"] ELSE st

\* file.data(gs).strictLevel = decideStrictLevel(gs, file, opts)
SetStrictLevel(st, file, o) ==
    [ReportIf(st, UselessOverride(st.gs, file, o), file, "ParserError") EXCEPT
        !.gs.files[file].strictLevel = decideStrictLevel(st.gs, file, o)]

\* incrementStrictLevelCounter: counts the level; None, Internal and Max
\* raise "Should never happen"
incrementStrictLevelCounter(st, level) ==
    IF level \in {"None", "Internal", "Max"} THEN Throw(st, "Should never happen") ELSE st

\* the level is counted once it is stored in the file
LevelCounted(st, file) == incrementStrictLevelCounter(st, st.gs.files[file].strictLevel)

readFileWithStrictnessOverrides(st, file, o) ==
    IF st.gs.files[file].sourceType # "NotYetRead"
    THEN st
    ELSE
        LET fileName == st.gs.files[file].path
            read == ReadFile(fileName.rest[1])
            Enter(s) == [s EXCEPT !.gs.files[file] =
                            File(fileName, IF read # "NotFound" THEN read ELSE "", "Normal")] IN
        Bind(WithUnfreeze(st, "files", Enter),
             LAMBDA entered :
                Bind(MarkStored(ReportIf(entered, read = "NotFound", file, "FileNotFound"),
                                file, o),
                     LAMBDA found :
                        Bind(SetStrictLevel(found, file, o),
                             LAMBDA decided : LevelCounted(decided, file))))

(***************************************************************************)
(* Trees.  A tree is its kind, the file of its location (0 for none) and   *)
(* its nodes in order; a node is its kind and the NameRef it carries.      *)
(***************************************************************************)
NullTree == [kind |-> "nullptr", locFile |-> 0, nodes |-> <<>>]

\* make_unique<ast::EmptyTree>(): built from no file, it has no location
EmptyTree == [kind |-> "EmptyTree", locFile |-> 0, nodes |-> <<>>]

Node(kind, name) == [kind |-> kind, name |-> name]

\* the outcome of a name-table call taken into the execution state
Entered(st, r) == [st EXCEPT !.gs = r.gs, !.violation = @ \/ r.violation]

\* a node of the given kind for the name a name-table call returned
EnterNode(st, r, kind) ==
    [Entered(st, r) EXCEPT !.tree.nodes = Append(@, Node(kind, r.ref))]

\* parser::Parser::run: interns the spellings of the source
RECURSIVE ParseTokens(_, _)
ParseTokens(st, toks) ==
    IF Len(st.tree.nodes) = Len(toks) THEN st
    ELSE Bind(EnterNode(st,
                        enterNameUTF8(st.gs, toks[Len(st.tree.nodes) + 1].text, "abort"),
                        toks[Len(st.tree.nodes) + 1].form),
              LAMBDA next : ParseTokens(next, toks))

ParserRun(st, file) ==
    LET src == st.gs.files[file].source IN
    IF FailPhase(src) = "parser" THEN Throw(st, "parser")
    ELSE Bind([st EXCEPT !.tree = [kind |-> "parser::Node", locFile |-> file, nodes |-> <<>>]],
              LAMBDA begun : ParseTokens(begun, Tokens(src)))

\* ast::desugar::node2Tree: constants are wrapped, temporaries are derived
RECURSIVE DesugarNodes(_, _, _)
DesugarNodes(st, nodes, i) ==
    IF i > Len(nodes) THEN st
    ELSE LET n == nodes[i] IN
         Bind(EnterNode(st,
                        Bind(CASE n.kind = "const" -> enterNameConstant(st.gs, n.name, "abort")
                               [] n.kind = "temp" ->
                                    freshNameUnique(st.gs, "Desugar", n.name, i, "abort")
                               [] OTHER -> [gs |-> st.gs, ref |-> n.name, violation |-> FALSE],
                             LAMBDA r : r),
                        CASE n.kind = "const" -> "UnresolvedConstantLit"
                          [] n.kind = "temp" -> "Assign"
                          [] OTHER -> "UnresolvedIdent"),
              LAMBDA next : DesugarNodes(next, nodes, i + 1))

node2Tree(st, file) ==
    IF FailPhase(st.gs.files[file].source) = "desugar" THEN Throw(st, "desugar")
    ELSE Bind([st EXCEPT !.tree = [kind |-> "InsSeq", locFile |-> st.tree.locFile, nodes |-> <<>>]],
              LAMBDA begun : DesugarNodes(begun, st.tree.nodes, 1))

\* NameRef::addEq: the UTF8 name spelled as this one followed by "="
addEq(gs, ref) == enterNameUTF8(gs, gs.names[ref].utf8 \o "=", "abort")

\* dsl::DSL::run: synthesizes a writer for the first identifier
DSLRun(st, file) ==
    LET idents == {i \in 1..Len(st.tree.nodes) : st.tree.nodes[i].kind = "UnresolvedIdent"} IN
    IF FailPhase(st.gs.files[file].source) = "dsl" THEN Throw(st, "dsl")
    ELSE IF idents = {} THEN st
    ELSE Bind(addEq(st.gs, st.tree.nodes[MinOf(idents)].name),
              LAMBDA r : EnterNode(st, r, "MethodDef"))

\* local_vars::LocalVars::run: resolves identifiers to locals
LocalVarsRun(st, file) ==
    IF FailPhase(st.gs.files[file].source) = "local_vars" THEN Throw(st, "local_vars")
    ELSE [st EXCEPT !.tree.nodes =
            [i \in 1..Len(@) |-> IF @[i].kind = "UnresolvedIdent"
                                 THEN Node("Local", @[i].name) ELSE @[i]]]

\* plugin::SubprocessTextPlugin::run: the generated source files
PluginRun(st, file) ==
    LET src == st.gs.files[file].source
        out == PluginOutput(src) IN
    IF FailPhase(src) = "plugin" THEN Throw(st, "plugin")
    ELSE [st EXCEPT !.pluginFiles =
            [j \in 1..Len(out) |->
                File(PathOf(st.gs.files[file].path.rest[1], out[j].k), out[j].source, "Normal")]]

(***************************************************************************)
(* The parse-tree cache: fileKey, fetchTreeFromCache, cacheTrees.  The     *)
(* store maps a key to the serialized tree.                                *)
(***************************************************************************)
\* crypto_hashing::hash64 of a source, taken as collision-free
hash64(src) == <<"hash64", src>>

fileKey(gs, file) == <<gs.files[file].path, hash64(gs.files[file].source)>>

\* Serializer::storeExpression: a header with the kind of the tree and the
\* number of its nodes, then each node's kind and the id of its NameRef
storeExpression(gs, tree) ==
    [bytes |-> <<[tag |-> tree.kind, u4 |-> Len(tree.nodes)]>> \o
               [i \in 1..Len(tree.nodes) |->
                   [tag |-> tree.nodes[i].kind, u4 |-> tree.nodes[i].name]]]

\* Serializer::loadExpression: the tree read back, its NameRefs made of the
\* stored ids in the state that loads it, its location in the file asked for
RECURSIVE UnpickleNodes(_, _, _)
UnpickleNodes(bytes, i, n) ==
    IF i > n THEN <<>>
    ELSE <<Node(bytes[i + 1].tag, bytes[i + 1].u4)>> \o UnpickleNodes(bytes, i + 1, n)

\* a loader that leaves the tree without a location
loadExpressionNoLoc(gs, cached, fileId) ==
    [kind |-> Head(cached.bytes).tag, locFile |-> 0,
     nodes |-> UnpickleNodes(cached.bytes, 1, Head(cached.bytes).u4)]

loadExpression(gs, cached, fileId) ==
    [kind |-> Head(cached.bytes).tag, locFile |-> fileId,
     nodes |-> UnpickleNodes(cached.bytes, 1, Head(cached.bytes).u4)]

\* a lookup that returns the cached tree without marking the file
fetchTreeFromCacheUnmarked(st, file, kv, o) ==
    IF ~(o.kvstore /\ file <= Len(st.gs.files)) THEN st
    ELSE IF fileKey(st.gs, file) \in DOMAIN kv
    THEN Ev([st EXCEPT !.tree = loadExpression(st.gs, kv[fileKey(st.gs, file)], file)],
            "phase", "cache_hit")
    ELSE Ev(st, "phase", "cache_miss")

\* a lookup that never reads the store
fetchTreeFromCacheNoRead(st, file, kv, o) == st

\* the cached tree taken into the execution state and the file marked;
\* ENFORCE(cachedTree->loc.file() == file)
CacheHit(st, cachedTree, file) ==
    Ev([st EXCEPT !.tree = cachedTree, !.gs.files[file].cachedParseTree = TRUE,
                  !.violation = @ \/ cachedTree.locFile # file], "phase", "cache_hit")

\* kvstore->read(fileKey) when there is a store and the file is known: a
\* hit loads the tree and marks the file, a miss is counted
fetchTreeFromCache(st, file, kv, o) ==
    IF ~(o.kvstore /\ file <= Len(st.gs.files)) THEN st
    ELSE IF fileKey(st.gs, file) \in DOMAIN kv
    THEN CacheHit(st, loadExpression(st.gs, kv[fileKey(st.gs, file)], file), file)
    ELSE Ev(st, "phase", "cache_miss")

RECURSIVE CacheTreesFrom(_, _, _, _)
CacheTreesFrom(gs, kv, trees, i) ==
    IF i > Len(trees) THEN kv
    ELSE IF gs.files[trees[i].file].cachedParseTree
    THEN CacheTreesFrom(gs, kv, trees, i + 1)
    ELSE Bind((fileKey(gs, trees[i].file) :> storeExpression(gs, trees[i].tree)) @@ kv,
              LAMBDA written : CacheTreesFrom(gs, written, trees, i + 1))

cacheTrees(gs, kv, trees, o) ==
    IF ~o.kvstore THEN kv ELSE CacheTreesFrom(gs, kv, trees, 1)

(***************************************************************************)
(* The phases of the indexer, each under the scopes the code takes.        *)
(***************************************************************************)
NewSt(gs, errors) ==
    [gs |-> gs, tree |-> NullTree, thrown |-> FALSE, ret |-> "none", log |-> <<>>,
     errors |-> errors, pluginFiles |-> <<>>, violation |-> FALSE]

runParser(st, file) ==
    LET Body(s) == Bind(Ev(s, "phase", "parser"), LAMBDA begun : ParserRun(begun, file)) IN
    WithUnfreeze(st, "names", Body)

\* runDesugar with the table unfrozen by hand and frozen again after the
\* call, which an exception skips
runDesugarNoScope(st, file) ==
    LET s1 == node2Tree(Ev(Acquire(st, "names"), "phase", "desugar"), file) IN
    IF s1.thrown THEN s1 ELSE Release(s1, "names", IsFrozen(st.gs, "names"))

runDesugar(st, file) ==
    LET Body(s) == Bind(Ev(s, "phase", "desugar"), LAMBDA begun : node2Tree(begun, file)) IN
    WithUnfreeze(st, "names", Body)

runDSL(st, file) ==
    LET Body(s) == Bind(Ev(s, "phase", "dsl"), LAMBDA begun : DSLRun(begun, file)) IN
    WithUnfreeze(st, "names", Body)

\* a runLocalVars that takes the name table for the run
runLocalVarsUnfrozen(st, file) ==
    LET Body(s) == Bind(Ev(s, "phase", "local_vars"), LAMBDA begun : LocalVarsRun(begun, file)) IN
    WithUnfreeze(st, "names", Body)

runLocalVars(st, file) ==
    Bind(Ev(st, "phase", "local_vars"), LAMBDA begun : LocalVarsRun(begun, file))

runPlugin(st, file) == Bind(Ev(st, "phase", "plugin"), LAMBDA begun : PluginRun(begun, file))

(***************************************************************************)
(* indexOne and indexOneWithPlugins: cache lookup, then on a miss the      *)
(* phases in order, each followed by its stopAfterPhase test; a            *)
(* SorbetException becomes an InternalError diagnostic and an empty tree.  *)
(***************************************************************************)
Running(st) == ~st.thrown /\ st.ret = "none"

\* if (opts.stopAfterPhase == phase) return the empty file
StopAt(st, phase, o) ==
    Bind(st, LAMBDA s : IF Running(s) /\ o.stopAfterPhase = phase
                        THEN [s EXCEPT !.ret = "empty"] ELSE s)

Then(st, Step(_)) == Bind(st, LAMBDA s : IF Running(s) THEN Step(s) ELSE s)

\* if (file.data(gs).strictLevel == Ignore) return the empty file
IgnoreCheck(st, file) ==
    IF st.gs.files[file].strictLevel = "Ignore" THEN [st EXCEPT !.ret = "empty"] ELSE st

\* the tree is not cached: start from the parser
FromParser(st, file, o, withPlugins) ==
    LET Parse(s) == runParser(s, file)
        Desugar(s) == runDesugar(s, file)
        Plugin(s) == IF withPlugins THEN runPlugin(s, file) ELSE s
        DSL(s) == IF o.skipDSLPasses THEN s ELSE runDSL(s, file)
        LocalVars(s) == runLocalVars(s, file) IN
    Bind(StopAt(Then(IgnoreCheck(st, file), Parse), "PARSER", o),
         LAMBDA parsed :
            Bind(StopAt(Then(parsed, Desugar), "DESUGARER", o),
                 LAMBDA desugared :
                    Bind(Then(desugared, Plugin),
                         LAMBDA rewritten :
                            Bind(Then(rewritten, DSL),
                                 LAMBDA dslsInlined :
                                    Bind(Then(dslsInlined, LocalVars),
                                         LAMBDA resolved :
                                            StopAt(resolved, "LOCAL_VARS", o))))))

\* a handler that reports nothing
CatchSilently(st, file) == st

\* catch (SorbetException &): an InternalError diagnostic on the file
Catch(st, file) ==
    Bind(st, LAMBDA s : IF s.thrown
                        THEN BeginError(Ev(s, "catch", "InternalError"), file, "InternalError")
                        ELSE s)

\* what the call returns: the tree, or the empty file without plugin files
Outcome(st, hit, file) ==
    [gs |-> st.gs, errors |-> st.errors, log |-> st.log, violation |-> st.violation,
     hit |-> hit,
     parsed |-> [file |-> file, tree |-> IF Running(st) THEN st.tree ELSE EmptyTree],
     pluginFiles |-> IF Running(st) THEN st.pluginFiles ELSE <<>>]

\* if (!tree) { ... } and what follows it
AfterFetch(st, file, o, withPlugins) ==
    Bind(IF st.tree.kind # "nullptr" THEN st ELSE FromParser(st, file, o, withPlugins),
         LAMBDA tree :
            Bind(Catch(StopAt(tree, "DSL", o), file),
                 LAMBDA left : Outcome(left, st.tree.kind # "nullptr", file)))

IndexFile(gs, errors, file, kv, o, withPlugins) ==
    Bind(fetchTreeFromCache(NewSt(gs, errors), file, kv, o),
         LAMBDA st : AfterFetch(st, file, o, withPlugins))

indexOne(gs, errors, file, kv, o) == IndexFile(gs, errors, file, kv, o, FALSE)

indexOneWithPlugins(gs, errors, file, kv, o) == IndexFile(gs, errors, file, kv, o, TRUE)

(***************************************************************************)
(* GlobalSubstitution from `from` to `to` (core/GlobalSubstitution): files *)
(* that `from` read and the common parent had not are entered into `to`;   *)
(* names below what a common ancestor knew map to themselves, every other  *)
(* name is entered again into `to`, its original taken through the map.    *)
(***************************************************************************)
MaxOf(S) == CHOOSE x \in S : \A y \in S : x >= y

\* the first name id that no common ancestor of the two states knew
SharedLast(from, to) ==
    LET common == {p \in (DOMAIN from.deepCloneHistory) \X (DOMAIN to.deepCloneHistory) :
                      from.deepCloneHistory[p[1]].globalStateId
                          = to.deepCloneHistory[p[2]].globalStateId}
        Known(p) == LET a == from.deepCloneHistory[p[1]].lastNameKnownByParentGlobalState
                        b == to.deepCloneHistory[p[2]].lastNameKnownByParentGlobalState IN
                    IF a <= b THEN a ELSE b IN
    IF common = {} THEN 0 ELSE MaxOf({Known(p) : p \in common})

RECURSIVE MergeFiles(_, _, _, _)
MergeFiles(from, to, parent, i) ==
    IF i > Len(from.files) THEN to
    ELSE IF \/ from.files[i].sourceType = "NotYetRead"
            \/ (i <= Len(to.files) /\ from.files[i] = to.files[i])
            \/ (i <= Len(parent.files) /\ from.files[i] = parent.files[i])
    THEN MergeFiles(from, to, parent, i + 1)
    ELSE Bind([to EXCEPT !.files = IF i <= Len(@) THEN [@ EXCEPT ![i] = from.files[i]]
                                         ELSE Append(@, from.files[i])],
              LAMBDA next : MergeFiles(from, next, parent, i + 1))

\* a re-entry that keeps the original's id of `from`
ReEnterRawOriginal(to, nm, map) ==
    CASE nm.kind = "UTF8" -> enterNameUTF8(to, nm.utf8, "abort")
      [] nm.kind = "UNIQUE" ->
           freshNameUnique(to, nm.uniqueNameKind, nm.original, nm.num, "abort")
      [] nm.kind = "CONSTANT" -> enterNameConstant(to, nm.original, "abort")

\* name nm of `from` entered into `to`, its original taken through the map
ReEnter(to, nm, map) ==
    CASE nm.kind = "UTF8" -> enterNameUTF8(to, nm.utf8, "abort")
      [] nm.kind = "UNIQUE" ->
           freshNameUnique(to, nm.uniqueNameKind, map[nm.original], nm.num, "abort")
      [] nm.kind = "CONSTANT" -> enterNameConstant(to, map[nm.original], "abort")

RECURSIVE BuildSubst(_, _, _, _, _)
RECURSIVE Recorded(_, _, _, _, _)
BuildSubst(from, to, last, map, i) ==
    IF i > Len(from.names) THEN [to |-> to, nameSubstitution |-> map]
    ELSE IF i < last
    THEN Bind(Append(map, i), LAMBDA next : BuildSubst(from, to, last, next, i + 1))
    ELSE Bind(ReEnter(to, from.names[i], map), LAMBDA r : Recorded(from, r, last, map, i))

\* record toId and go on with the next name
Recorded(from, r, last, map, i) ==
    Bind(Append(map, r.ref), LAMBDA next : BuildSubst(from, r.gs, last, next, i + 1))

\* the names, entered under an UnfreezeNameTable scope on `to`
SubstituteNames(from, to) ==
    [Bind(SharedLast(from, to),
          LAMBDA last : BuildSubst(from, [to EXCEPT !.nameTableFrozen = FALSE], last, <<>>, 1))
        EXCEPT !.to.nameTableFrozen = to.nameTableFrozen]

GlobalSubstitution(from, to, optionalCommonParent) ==
    Bind(MergeFiles(from, to, optionalCommonParent, 1), LAMBDA merged : SubstituteNames(from, merged))

\* GlobalSubstitution::substitute: the entry of the map for the id; an id
\* beyond the map (ruled out by an ENFORCE) is handed back as it is
SubstituteName(subst, id) ==
    IF id \in DOMAIN subst.nameSubstitution THEN subst.nameSubstitution[id] ELSE id

\* ast::Substitute::run: every NameRef of the tree goes through the map
Substitute(subst, tree) ==
    [tree EXCEPT !.nodes = [i \in 1..Len(tree.nodes) |->
                               Node(tree.nodes[i].kind,
                                    SubstituteName(subst, tree.nodes[i].name))]]

(***************************************************************************)
(* What a tree says: its kind and, node by node, the kind and the textual  *)
(* form of the name in the given state.                                    *)
(***************************************************************************)
ValidTree(gs, tree) == \A i \in 1..Len(tree.nodes) : tree.nodes[i].name \in 1..Len(gs.names)

TreeText(gs, tree) ==
    [kind |-> tree.kind,
     nodes |-> [i \in 1..Len(tree.nodes) |->
                  <<tree.nodes[i].kind,
                    IF tree.nodes[i].name \in 1..Len(gs.names)
                    THEN showRaw(gs.names, tree.nodes[i].name) ELSE "<invalid>">>]]

(***************************************************************************)
(* The file table calls of the coordinator, and the result of indexing.    *)
(***************************************************************************)
\* reserveFiles: one slot of the file table for each path, not yet read
reserveFiles(gs, n) ==
    [gs EXCEPT !.files = @ \o [i \in 1..n |-> File(PathOf(i, 0), "", "NotYetRead")]]

\* GlobalState::enterFile: the file gets the next FileRef
enterFile(st, file) == [st EXCEPT !.gs.files = Append(@, file)]

RECURSIVE EnterFiles(_, _, _)
EnterFiles(st, pluginFiles, j) ==
    IF j > Len(pluginFiles) THEN st ELSE EnterFiles(enterFile(st, pluginFiles[j]), pluginFiles, j + 1)

EmptyIndexResult == [gs |-> NoGs, trees |-> <<>>, pluginGeneratedFiles |-> <<>>]

\* the trees left in the order they were collected
SortByFileNot(trees) == trees

\* fast_sort(ret, a.file < b.file)
RECURSIVE SortByFile(_)
SortByFile(trees) ==
    IF trees = <<>> THEN <<>>
    ELSE LET least == MinOf({trees[i].file : i \in 1..Len(trees)})
             at == MinOf({i \in 1..Len(trees) : trees[i].file = least}) IN
         <<trees[at]>> \o SortByFile([i \in 1..(Len(trees) - 1) |->
                                         IF i < at THEN trees[i] ELSE trees[i + 1]])

(***************************************************************************)
(* mergeIndexResults, for one result popped from the result queue: the     *)
(* first batch becomes the canonical result; a later batch is substituted  *)
(* into the canonical state, except the trees that came from the cache.    *)
(***************************************************************************)
\* a later batch appended as it is, no tree rewritten
\* cacheTrees and the two inserts that end the merge of a later batch
AppendBatch(ret, retGs, trees, pluginFiles, kv, o) ==
    [ret |-> [gs |-> retGs,
              trees |-> ret.trees \o trees,
              pluginGeneratedFiles |-> ret.pluginGeneratedFiles \o pluginFiles],
     kv |-> cacheTrees(retGs, kv, trees, o)]

\* the trees of a later batch, left as they came from the worker
SubstituteTreesNot(substitution, trees) == trees

\* the trees of a later batch that go through ast::Substitute::run: those
\* whose file the canonical state does not mark cachedParseTree
ThroughSubstitution(to, trees) ==
    {i \in 1..Len(trees) : ~to.files[trees[i].file].cachedParseTree}

\* the trees of a later batch, those not from the cache substituted
SubstituteTrees(substitution, trees) ==
    [i \in 1..Len(trees) |->
        IF i \in ThroughSubstitution(substitution.to, trees)
        THEN [file |-> trees[i].file, tree |-> Substitute(substitution, trees[i].tree)]
        ELSE trees[i]]

MergeLater(ret, threadResult, substitution, kv, o) ==
    Bind(SubstituteTrees(substitution, threadResult.trees),
         LAMBDA trees : AppendBatch(ret, substitution.to, trees,
                                    threadResult.pluginGeneratedFiles, kv, o))

\* a merge that takes each batch's state for the canonical one
mergeIndexResultsTakesLatestGs(ret, threadResult, cgs, kv, o) ==
    [ret |-> [gs |-> threadResult.gs,
              trees |-> ret.trees \o threadResult.trees,
              pluginGeneratedFiles |->
                  ret.pluginGeneratedFiles \o threadResult.pluginGeneratedFiles],
     kv |-> cacheTrees(threadResult.gs, kv, threadResult.trees, o)]

mergeIndexResults(ret, threadResult, cgs, kv, o) ==
    IF ~ret.gs.exists
    THEN [ret |-> threadResult, kv |-> cacheTrees(threadResult.gs, kv, threadResult.trees, o)]
    ELSE Bind(GlobalSubstitution(threadResult.gs, ret.gs, cgs),
              LAMBDA substitution : MergeLater(ret, threadResult, substitution, kv, o))

(***************************************************************************)
(* index for fewer than three files: everything inline on the caller's     *)
(* state, the plugin-generated files of a file right after it.             *)
(***************************************************************************)
\* the inline run so far: the caller's state, the cache, the trees collected
NewAcc(gs, errors, kv) ==
    [gs |-> gs, errors |-> errors, kv |-> kv, log |-> <<>>, ret |-> <<>>,
     pluginFileCount |-> 0, ran |-> <<>>, thrown |-> FALSE]

AccSt(acc) == [NewSt(acc.gs, acc.errors) EXCEPT !.log = acc.log]

AccOf(acc, st) == [acc EXCEPT !.gs = st.gs, !.errors = st.errors, !.log = st.log]

\* ret.emplace_back(parsed file)
AccIndexed(acc, r, file) ==
    [acc EXCEPT !.gs = r.gs, !.errors = r.errors, !.log = @ \o r.log,
                !.ret = Append(@, r.parsed),
                !.pluginFileCount = @ + Len(r.pluginFiles),
                !.ran = Append(@, [file |-> file, hit |-> r.hit, log |-> r.log,
                                   violation |-> r.violation])]

\* { UnfreezeFileTable; pluginFileRef = gs->enterFile(pluginFile); strictLevel = ... }
EnterPluginFile(acc, pluginFile, o) ==
    LET Level(s) == [s EXCEPT !.gs.files[Len(s.gs.files)].strictLevel =
                        decideStrictLevel(s.gs, Len(s.gs.files), o)]
        Enter(s) == Level(enterFile(s, pluginFile)) IN
    AccOf(acc, WithUnfreeze(AccSt(acc), "files", Enter))

\* ret.emplace_back(indexOne(opts, *gs, pluginFileRef, kvstore))
IndexEntered(acc, o) ==
    AccIndexed(acc, indexOne(acc.gs, acc.errors, Len(acc.gs.files), acc.kv, o),
               Len(acc.gs.files))

\* for (auto &pluginFile : pluginFiles) { ... }
RECURSIVE IndexPluginFilesInline(_, _, _, _)
IndexPluginFilesInline(acc, pluginFiles, j, o) ==
    IF j > Len(pluginFiles) THEN acc
    ELSE IndexPluginFilesInline(IndexEntered(EnterPluginFile(acc, pluginFiles[j], o), o),
                                pluginFiles, j + 1, o)

\* an exception of the read leaves index
ReadInline(acc, file, o) ==
    LET st == readFileWithStrictnessOverrides(AccSt(acc), file, o) IN
    [AccOf(acc, st) EXCEPT !.thrown = st.thrown]

WithPluginFiles(acc, r, file, o) ==
    IndexPluginFilesInline(AccIndexed(acc, r, file), r.pluginFiles, 1, o)

IndexedInline(acc, file, o) ==
    IF acc.thrown THEN acc
    ELSE WithPluginFiles(acc, indexOneWithPlugins(acc.gs, acc.errors, file, acc.kv, o), file, o)

CachedInline(acc, o) == [acc EXCEPT !.kv = cacheTrees(acc.gs, acc.kv, acc.ret, o)]

\* the supplied files that have their tree in ret
Supplied(acc) == Len(acc.ret) - acc.pluginFileCount

\* for (auto file : files) { read; index; its plugin files; cacheTrees }
\* ENFORCE(files.size() + pluginFileCount == ret.size())
RECURSIVE IndexInline(_, _, _)
IndexInline(acc, files, o) ==
    IF Supplied(acc) = Len(files) \/ acc.thrown THEN acc
    ELSE IndexInline(CachedInline(IndexedInline(ReadInline(acc, files[Supplied(acc) + 1], o),
                                                files[Supplied(acc) + 1], o), o),
                     files, o)

(***************************************************************************)
(* The name-table specification: a caller that interns names into a        *)
(* global state, freezes and unfreezes its name table, forks it with       *)
(* deepCopy and goes on with the copy, and runs the sanity check.          *)
(***************************************************************************)
NoCall == [op |-> "none", gs |-> 0, nm |-> UTF8Name(""), ref |-> 0, violation |-> FALSE,
           before |-> <<>>, frozenBefore |-> FALSE, sane |-> TRUE]

\* the state the caller currently works on: the youngest copy
Cur == IF gss[1].exists THEN 1 ELSE 0

\* names that may wrap as a constant: UTF8, or UNIQUE of kind ResolverMissingClass
ConstantOriginals(names) ==
    {i \in 1..Len(names) :
        \/ names[i].kind = "UTF8"
        \/ names[i].kind = "UNIQUE" /\ names[i].uniqueNameKind = "ResolverMissingClass"}

NamesInit ==
    /\ gss = [g \in 0..1 |-> IF g = 0 THEN NewGs(1) ELSE NoGs]
    /\ debug_mode \in BOOLEAN
    /\ halted = FALSE
    /\ call = NoCall
    /\ opts = <<>> /\ kvstore = <<>> /\ fileq = <<>> /\ resultq = <<>>
    /\ wk = <<>> /\ co = <<>> /\ errorQueue = {} /\ hist = <<>>

\* one call of a name-table mutator for name nm, as the build runs it
NameCall(op, nm) ==
    \E ub \in ViolationOutcomes(debug_mode) :
        LET gs == gss[Cur]
            r == EnterName(gs, nm, ub) IN
        /\ ~halted
        /\ Len(gs.names) < MaxNames \/ LookupName(gs.names, nm) # 0
        /\ gss' = [gss EXCEPT ![Cur] = r.gs]
        /\ halted' = (r.violation /\ debug_mode)
        /\ call' = [op |-> op, gs |-> Cur, nm |-> nm, ref |-> r.ref,
                    violation |-> r.violation, before |-> gs.names,
                    frozenBefore |-> gs.nameTableFrozen, sane |-> TRUE]
        /\ UNCHANGED <<debug_mode, indexVars>>

NEnterUTF8 ==
    \E bytes \in Utf8Pool : NameCall("enterNameUTF8", UTF8Name(bytes))

NEnterConstant ==
    \E original \in ConstantOriginals(gss[Cur].names) :
        NameCall("enterNameConstant", ConstantName(original))

NFreshUnique ==
    \E uk \in UniqueKindPool, original \in 1..Len(gss[Cur].names), num \in NumPool :
        NameCall("freshNameUnique", UniqueName(uk, original, num))

\* UnfreezeNameTable taken or released by the caller
NToggleFreeze ==
    /\ ~halted
    /\ gss' = [gss EXCEPT ![Cur].nameTableFrozen = ~@]
    /\ call' = NoCall
    /\ UNCHANGED <<debug_mode, halted, indexVars>>

NDeepCopy ==
    /\ ~halted
    /\ ~gss[1].exists
    /\ gss' = [gss EXCEPT ![1] = GsDeepCopy(gss[0], 2)]
    /\ call' = [NoCall EXCEPT !.op = "deepCopy", !.gs = 1]
    /\ UNCHANGED <<debug_mode, halted, indexVars>>

\* GlobalState::sanityCheck: Name::sanityCheck on every name
NSanityCheck ==
    /\ ~halted
    /\ call.op # "sanityCheck"
    /\ LET ok == \A id \in 1..Len(gss[Cur].names) : NameSanityCheck(gss[Cur], id, debug_mode) IN
       /\ call' = [NoCall EXCEPT !.op = "sanityCheck", !.gs = Cur, !.sane = ok]
       /\ halted' = ~ok
    /\ UNCHANGED <<gss, debug_mode, indexVars>>

NamesNext ==
    \/ NEnterUTF8
    \/ NEnterConstant
    \/ NFreshUnique
    \/ NToggleFreeze
    \/ NDeepCopy
    \/ NSanityCheck

SpecNames == NamesInit /\ [][NamesNext]_vars

(***************************************************************************)
(* The indexing specification: the caller reserves the files and calls     *)
(* index, once and then again on the state and the cache the first call    *)
(* left.  With three files or more the pool's workers and the coordinator  *)
(* run concurrently, one queue operation with the work on its item a step. *)
(***************************************************************************)
MaxFiles == 4

\* the sizes of the worker pool: one worker, or two
PoolSizes == {1, 2}

MaxWorkers == MaxOf(PoolSizes)

MaxRuns == 2

StopPool == {"NONE", "INIT", "DESUGARER"}

Options(stop, cache) ==
    [stopAfterPhase |-> stop, kvstore |-> cache, skipDSLPasses |-> FALSE,
     storeState |-> FALSE, forceMaxStrict |-> "Max", forceMinStrict |-> "Ignore",
     strictnessOverrides |-> <<>>]

OptionsPool == {Options(stop, cache) : stop \in StopPool, cache \in BOOLEAN}

Workers == DOMAIN wk

IdleWorker == [pc |-> "idle", job |-> 0, trees |-> <<>>, pluginFiles |-> <<>>]

\* the id the global counter gives the clone of worker w in job j
GsIdFor(j, w) == 1 + (j - 1) * MaxWorkers + w

\* localGs of worker w lives in slot w
WorkerSlotShared(w) == 0

WorkerSlot(w) == w

NoHist == [ran |-> <<>>, generated |-> 0, substituted |-> {}, prev |-> <<>>,
           startFiles |-> 0, sane |-> TRUE, oneWorker |-> <<>>,
           popped |-> <<>>, pushed |-> <<>>, received |-> <<>>]

\* the phases the log says ran
Phases(log) == {log[i].what : i \in {j \in DOMAIN log : log[j].ev = "phase"}}

\* one more indexing of `file`, by worker w, noted in the observations
Ran(ran, file, w, r) ==
    (file :> [times |-> IF file \in DOMAIN ran THEN ran[file].times + 1 ELSE 1,
              by |-> w, hit |-> r.hit, marked |-> r.gs.files[file].cachedParseTree,
              phases |-> Phases(r.log), flags |-> Flags(r.gs),
              text |-> TreeText(r.gs, r.parsed.tree)]) @@ ran

\* the number of files the caller hands to its first call of index, of the n
\* files it has reserved: all of them, or all but the last one
FirstCallSizes(n) == {m \in {n - 1, n} : m >= 1}

Init ==
    /\ \E n \in 1..MaxFiles, W \in PoolSizes : \E m \in FirstCallSizes(n) :
          /\ gss = [g \in 0..MaxWorkers |-> IF g = 0 THEN reserveFiles(NewGs(1), n) ELSE NoGs]
          /\ wk = [w \in 1..W |-> IdleWorker]
          /\ co = [pc |-> "idle", files |-> [i \in 1..m |-> i], reserved |-> n,
                   run |-> 0, job |-> 0,
                   pass |-> 0, bound |-> 0, merged |-> 0, ret |-> EmptyIndexResult,
                   firstPass |-> EmptyIndexResult, returned |-> <<>>]
    /\ opts \in OptionsPool
    /\ debug_mode \in BOOLEAN
    /\ halted = FALSE
    /\ call = NoCall
    /\ kvstore = <<>>
    /\ fileq = <<>>
    /\ resultq = <<>>
    /\ errorQueue = {}
    /\ hist = NoHist

\* the caller may call index: the first time, or again with the cache it keeps
CanCall ==
    /\ co.run < MaxRuns
    /\ co.pc = "idle" \/ (co.pc = "returned" /\ opts.kvstore)

\* the vector of a call: the files of the first call, or (in a later call)
\* every file the caller has reserved
CallVectors ==
    {co.files} \cup (IF co.run = 0 THEN {} ELSE {[i \in 1..co.reserved |-> i]})

\* what the trees returned last said, file by file, in the state returned
Returned ==
    [i \in 1..Len(co.returned) |->
        [file |-> co.returned[i].file,
         path |-> gss[0].files[co.returned[i].file].path,
         text |-> TreeText(gss[0], co.returned[i].tree)]]

CallHist == [NoHist EXCEPT !.prev = IF co.pc = "returned" THEN Returned ELSE <<>>,
                           !.startFiles = Len(gss[0].files),
                           !.sane = \A id \in 1..Len(gss[0].names) :
                                       NameSanityCheck(gss[0], id, debug_mode)]

\* the body of the indexSuppliedFiles worker loop for one popped file
ReadThenIndex(st, file, kv, o) == indexOneWithPlugins(st.gs, st.errors, file, kv, o)

SuppliedFileJob(localGs, errors, file, kv, o) ==
    Bind(readFileWithStrictnessOverrides(NewSt(localGs, errors), file, o),
         LAMBDA st : ReadThenIndex(st, file, kv, o))

\* the body of the indexPluginFiles worker loop for one popped file
PluginFileJob(localGs, errors, file, kv, o) ==
    Bind([localGs EXCEPT !.files[file].strictLevel = decideStrictLevel(localGs, file, o)],
         LAMBDA gs : indexOne(gs, errors, file, kv, o))

(***************************************************************************)
(* The same index call with a pool of one worker, which leaves the         *)
(* schedule no choice: every file of a job is popped by that worker, in    *)
(* queue order, and each job has one batch to merge.                       *)
(***************************************************************************)
Batch(gs, errors) == [gs |-> gs, errors |-> errors, trees |-> <<>>, pluginGeneratedFiles |-> <<>>]

Popped(batch, r) ==
    [gs |-> r.gs, errors |-> r.errors, trees |-> Append(batch.trees, r.parsed),
     pluginGeneratedFiles |-> batch.pluginGeneratedFiles \o r.pluginFiles]

\* the worker pops until the queue is drained: one tree for each file
RECURSIVE OneWorkerJob(_, _, _, _, _)
OneWorkerJob(batch, files, pass, kv, o) ==
    IF Len(batch.trees) = Len(files) THEN batch
    ELSE OneWorkerJob(
             Popped(batch,
                    IF pass = 1
                    THEN SuppliedFileJob(batch.gs, batch.errors, files[Len(batch.trees) + 1],
                                         kv, o)
                    ELSE PluginFileJob(batch.gs, batch.errors, files[Len(batch.trees) + 1],
                                       kv, o)),
             files, pass, kv, o)

\* the second job and the substitution of the first pass's trees
OneWorkerSecond(first, protoGs, second) ==
    [gs |-> second.gs,
     trees |-> SortByFile([i \in 1..Len(first.trees) |->
                             [file |-> first.trees[i].file,
                              tree |-> Substitute(GlobalSubstitution(protoGs, second.gs, protoGs),
                                                  first.trees[i].tree)]] \o second.trees)]

OneWorkerPlugins(first, protoGs, kv, o) ==
    OneWorkerSecond(first, protoGs,
                    OneWorkerJob(Batch(GsDeepCopy(protoGs, 0), first.errors),
                                 [j \in 1..Len(first.pluginGeneratedFiles) |->
                                     Len(first.gs.files) + j],
                                 2, cacheTrees(first.gs, kv, first.trees, o), o))

OneWorkerFirst(first, kv, o) ==
    IF first.pluginGeneratedFiles = <<>>
    THEN [gs |-> first.gs, trees |-> SortByFile(first.trees)]
    ELSE OneWorkerPlugins(first,
                          EnterFiles(NewSt(first.gs, first.errors),
                                     first.pluginGeneratedFiles, 1).gs,
                          kv, o)

OneWorkerIndex(gs, errors, files, kv, o) ==
    OneWorkerFirst(OneWorkerJob(Batch(GsDeepCopy(gs, 0), errors), files, 1, kv, o), kv, o)

\* what the trees of a result say, in file order
TextsOf(result) ==
    [i \in 1..Len(result.trees) |->
        [file |-> result.trees[i].file,
         path |-> result.gs.files[result.trees[i].file].path,
         text |-> TreeText(result.gs, result.trees[i].tree)]]

\* index with stopAfterPhase == INIT
IndexStopAtInit ==
    /\ CanCall
    /\ opts.stopAfterPhase = "INIT"
    /\ co' = [co EXCEPT !.pc = "returned", !.run = @ + 1, !.returned = <<>>]
    /\ hist' = [CallHist EXCEPT !.sane = TRUE]
    /\ UNCHANGED <<gss, debug_mode, halted, call, opts, kvstore, fileq, resultq, wk, errorQueue>>

\* index of fewer than three files
IndexSingleThreaded ==
    /\ CanCall
    /\ opts.stopAfterPhase # "INIT"
    /\ \E files \in {v \in CallVectors : Len(v) < 3} :
       \E acc \in {IndexInline(NewAcc(gss[0], errorQueue, kvstore), files, opts)} :
       /\ gss' = [gss EXCEPT ![0] = acc.gs]
       /\ kvstore' = acc.kv
       /\ errorQueue' = acc.errors
       /\ co' = [co EXCEPT !.pc = "returned", !.files = files, !.run = @ + 1,
                           !.returned = SortByFile(acc.ret)]
       /\ hist' = [CallHist EXCEPT
                      !.generated = acc.pluginFileCount,
                      !.ran = [f \in {acc.ran[i].file : i \in DOMAIN acc.ran} |->
                                 LET at == {i \in DOMAIN acc.ran : acc.ran[i].file = f}
                                     i == MinOf(at) IN
                                 [times |-> Cardinality(at), by |-> 0, hit |-> acc.ran[i].hit,
                                  marked |-> acc.gs.files[f].cachedParseTree,
                                  phases |-> Phases(acc.ran[i].log), flags |-> Flags(acc.gs),
                                  text |-> TreeText(acc.gs, acc.ret[i].tree)]]]
    /\ UNCHANGED <<debug_mode, halted, call, opts, fileq, resultq, wk>>

\* index of three files or more: indexSuppliedFiles fills the queue and
\* hands the job to the pool
IndexSuppliedFilesBegin ==
    /\ CanCall
    /\ opts.stopAfterPhase # "INIT"
    /\ \E files \in {v \in CallVectors : Len(v) >= 3} :
       /\ fileq' = files
       /\ co' = [co EXCEPT !.pc = "merge", !.files = files, !.run = @ + 1, !.job = @ + 1,
                           !.pass = 1, !.bound = Len(files), !.merged = 0,
                           !.ret = EmptyIndexResult, !.firstPass = EmptyIndexResult,
                           !.returned = <<>>]
       /\ hist' = [CallHist EXCEPT !.oneWorker =
                       TextsOf(OneWorkerIndex(gss[0], errorQueue, files, kvstore, opts))]
    /\ resultq' = <<>>
    /\ UNCHANGED <<gss, debug_mode, halted, call, opts, kvstore, wk, errorQueue>>

\* a job is live while the coordinator is still merging its results
JobLive(j) == j = co.job /\ co.pc = "merge"

\* the worker lambda begins: localGs = baseGs->deepCopy()
WorkerStart(w) ==
    /\ wk[w].pc # "run"
    /\ JobLive(wk[w].job + 1)
    /\ gss' = [gss EXCEPT ![WorkerSlot(w)] = GsDeepCopy(gss[0], GsIdFor(co.job, w))]
    /\ wk' = [wk EXCEPT ![w] = [pc |-> "run", job |-> co.job, trees |-> <<>>,
                                 pluginFiles |-> <<>>]]
    /\ UNCHANGED <<debug_mode, halted, call, opts, kvstore, fileq, resultq, co, errorQueue, hist>>

\* the lambda of a job whose results are all merged already: its queue is
\* drained, it pops nothing and pushes nothing
WorkerStale(w) ==
    /\ wk[w].pc # "run"
    /\ wk[w].job < co.job
    /\ ~JobLive(wk[w].job + 1)
    /\ wk' = [wk EXCEPT ![w] = [pc |-> "done", job |-> wk[w].job + 1, trees |-> <<>>,
                                 pluginFiles |-> <<>>]]
    /\ UNCHANGED <<gss, debug_mode, halted, call, opts, kvstore, fileq, resultq, co,
                   errorQueue, hist>>

\* try_pop got a file: the worker reads and indexes it in its own state
WorkerPop(w) ==
    /\ wk[w].pc = "run"
    /\ JobLive(wk[w].job)
    /\ fileq # <<>>
    /\ \E r \in {IF co.pass = 1
                   THEN SuppliedFileJob(gss[WorkerSlot(w)], errorQueue, Head(fileq), kvstore, opts)
                   ELSE PluginFileJob(gss[WorkerSlot(w)], errorQueue, Head(fileq), kvstore, opts)} :
       /\ fileq' = Tail(fileq)
       /\ gss' = [gss EXCEPT ![WorkerSlot(w)] = r.gs]
       /\ wk' = [wk EXCEPT ![w].trees = Append(@, r.parsed),
                           ![w].pluginFiles = @ \o r.pluginFiles]
       /\ errorQueue' = r.errors
       /\ hist' = [hist EXCEPT !.ran = Ran(@, Head(fileq), w, r),
                               !.generated = @ + Len(r.pluginFiles),
                               !.popped = Append(@, [job |-> co.job, by |-> w,
                                                     file |-> Head(fileq)])]
    /\ UNCHANGED <<debug_mode, halted, call, opts, kvstore, resultq, co>>

\* a worker that pushes whatever it holds, an empty batch too
HasTreesAlways(worker) == TRUE

\* if (!threadResult.res.trees.empty())
HasTrees(worker) == worker.trees # <<>>

\* try_pop found the queue drained: the worker hands over what it has
WorkerDone(w) ==
    /\ wk[w].pc = "run"
    /\ fileq = <<>> \/ ~JobLive(wk[w].job)
    /\ resultq' = IF HasTrees(wk[w])
                  THEN Append(resultq, [count |-> Len(wk[w].trees), by |-> w,
                                        res |-> [gs |-> gss[WorkerSlot(w)],
                                                 trees |-> wk[w].trees,
                                                 pluginGeneratedFiles |-> wk[w].pluginFiles]])
                  ELSE resultq
    /\ hist' = IF HasTrees(wk[w])
               THEN [hist EXCEPT !.pushed = Append(@, [job |-> wk[w].job, by |-> w,
                                                       count |-> Len(wk[w].trees)])]
               ELSE hist
    /\ gss' = [gss EXCEPT ![WorkerSlot(w)] = NoGs]
    /\ wk' = [wk EXCEPT ![w] = [pc |-> "done", job |-> wk[w].job, trees |-> <<>>,
                                 pluginFiles |-> <<>>]]
    /\ UNCHANGED <<debug_mode, halted, call, opts, kvstore, fileq, co, errorQueue>>

\* the texts of a batch before and after the merge took it into the result
Substituted(fromGs, before, toGs, after, through, where) ==
    {[file |-> before[i].file,
      where |-> where,
      cached |-> toGs.files[before[i].file].cachedParseTree,
      substituted |-> i \in through,
      rewritten |-> after[i].tree # before[i].tree,
      valid |-> ValidTree(toGs, after[i].tree),
      before |-> TreeText(fromGs, before[i].tree),
      after |-> TreeText(toGs, after[i].tree)] : i \in 1..Len(before)}

\* mergeIndexResults pops one result
CoordMerge ==
    /\ co.pc = "merge"
    /\ resultq # <<>>
    /\ \E threadResult \in {Head(resultq)},
          m \in {mergeIndexResults(co.ret, Head(resultq).res, gss[0], kvstore, opts)} :
       /\ resultq' = Tail(resultq)
       /\ kvstore' = m.kv
       /\ co' = [co EXCEPT !.ret = m.ret, !.merged = @ + threadResult.count]
       /\ hist' = [hist EXCEPT !.substituted =
                       IF co.ret.gs.exists
                       THEN Substituted(threadResult.res.gs, threadResult.res.trees, m.ret.gs,
                                        SubSeq(m.ret.trees, Len(co.ret.trees) + 1,
                                               Len(m.ret.trees)),
                                        ThroughSubstitution(m.ret.gs, threadResult.res.trees),
                                        IF co.pass = 1 THEN "first_pass" ELSE "plugin_pass")
                       ELSE {},
                                !.received = Append(@, [job |-> co.job, by |-> threadResult.by,
                                                        count |-> threadResult.count])]
    /\ UNCHANGED <<gss, debug_mode, halted, call, opts, fileq, wk, errorQueue>>

\* the supplied files are merged and none generated a file: index sorts
\* the trees and returns them with the canonical state
IndexReturnFirstPass ==
    /\ co.pc = "merge" /\ co.pass = 1 /\ co.merged = co.bound
    /\ co.ret.pluginGeneratedFiles = <<>>
    /\ gss' = [gss EXCEPT ![0] = co.ret.gs]
    /\ co' = [co EXCEPT !.pc = "returned", !.returned = SortByFile(co.ret.trees),
                        !.ret = EmptyIndexResult]
    /\ hist' = [hist EXCEPT !.substituted = {}]
    /\ UNCHANGED <<debug_mode, halted, call, opts, kvstore, fileq, resultq, wk, errorQueue>>

\* indexPluginFiles: the generated files enter the first pass's state, which
\* becomes the prototype the workers of the second job copy
IndexPluginFilesBegin ==
    /\ co.pc = "merge" /\ co.pass = 1 /\ co.merged = co.bound
    /\ co.ret.pluginGeneratedFiles # <<>>
    /\ LET Enter(s) == EnterFiles(s, co.ret.pluginGeneratedFiles, 1)
           count == Len(co.ret.pluginGeneratedFiles) IN
       /\ gss' = [gss EXCEPT ![0] = WithUnfreeze(NewSt(co.ret.gs, errorQueue), "files", Enter).gs]
       /\ fileq' = [j \in 1..count |-> Len(co.ret.gs.files) + j]
       /\ resultq' = <<>>
       /\ co' = [co EXCEPT !.job = @ + 1, !.pass = 2, !.bound = count, !.merged = 0,
                           !.firstPass = [co.ret EXCEPT !.gs = NoGs],
                           !.ret = EmptyIndexResult]
    /\ hist' = [hist EXCEPT !.substituted = {}]
    /\ UNCHANGED <<debug_mode, halted, call, opts, kvstore, wk, errorQueue>>

\* the generated files are merged: the first pass's trees are substituted
\* into the new canonical state, and index sorts and returns all trees
IndexPluginFilesEnd ==
    /\ co.pc = "merge" /\ co.pass = 2 /\ co.merged = co.bound
    /\ \E protoGs \in {gss[0]} :
       \E substitution \in {GlobalSubstitution(protoGs, co.ret.gs, protoGs)} :
       \E trees \in {[i \in 1..Len(co.firstPass.trees) |->
                        [file |-> co.firstPass.trees[i].file,
                         tree |-> Substitute(substitution, co.firstPass.trees[i].tree)]]} :
       /\ gss' = [gss EXCEPT ![0] = substitution.to]
       /\ co' = [co EXCEPT !.pc = "returned",
                           !.returned = SortByFile(trees \o co.ret.trees),
                           !.ret = EmptyIndexResult, !.firstPass = EmptyIndexResult]
       /\ hist' = [hist EXCEPT !.substituted =
                       Substituted(protoGs, co.firstPass.trees, substitution.to, trees,
                                   DOMAIN trees, "first_pass_with_plugin_pass")]
    /\ UNCHANGED <<debug_mode, halted, call, opts, kvstore, fileq, resultq, wk, errorQueue>>

Next ==
    \/ IndexStopAtInit
    \/ IndexSingleThreaded
    \/ IndexSuppliedFilesBegin
    \/ \E w \in Workers : WorkerStart(w)
    \/ \E w \in Workers : WorkerStale(w)
    \/ \E w \in Workers : WorkerPop(w)
    \/ \E w \in Workers : WorkerDone(w)
    \/ CoordMerge
    \/ IndexReturnFirstPass
    \/ IndexPluginFilesBegin
    \/ IndexPluginFilesEnd

Spec == Init /\ [][Next]_vars

(***************************************************************************)
(* name and incrementalResolve, and the specification of a caller that     *)
(* runs index, name and incrementalResolve in turn on a state whose        *)
(* tables it holds frozen or unfrozen, with collaborators (configatron,    *)
(* namer, resolver) that raise or not.                                     *)
(***************************************************************************)
\* a symbol enters the symbol table, which must not be frozen
EnterSymbol(st) == [st EXCEPT !.violation = @ \/ st.gs.symbolTableFrozen]

\* namer::Namer::run: raises for the files in `fails`; else enters the
\* singleton of the first name of the tree, and a symbol
NamerRun(st, parsed, fails) ==
    IF parsed.file \in fails THEN Throw(st, "namer")
    ELSE IF parsed.tree.nodes = <<>> THEN EnterSymbol(Ev(st, "phase", "namer"))
    ELSE EnterSymbol(Entered(Ev(st, "phase", "namer"),
                             freshNameUnique(st.gs, "Singleton", parsed.tree.nodes[1].name, 1,
                                             "abort")))

\* catch (SorbetException &) in a loop that goes on with the next tree
Caught(st, file) == IF st.thrown THEN [Catch(st, file) EXCEPT !.thrown = FALSE] ELSE st

\* tree = Namer::run(ctx, move(tree)): a tree the namer raised on was moved
\* from and is null
NamedTree(st, parsed) == IF st.thrown THEN [parsed EXCEPT !.tree = NullTree] ELSE parsed

\* namer::configatron::fillInFromFileSystem under both scopes
fillInFromFileSystem(st, raises) ==
    LET Fill(s) == IF raises THEN Throw(s, "configatron")
                   ELSE EnterSymbol(Ev(s, "phase", "configatron"))
        Symbols(s) == WithUnfreeze(s, "symbols", Fill) IN
    WithUnfreeze(st, "names", Symbols)

\* the body of the loop of name for one tree
NameTree(st, parsed, fails) ==
    LET Run(s) == NamerRun(s, parsed, fails)
        Symbols(s) == WithUnfreeze(s, "symbols", Run) IN
    WithUnfreeze(st, "names", Symbols)

\* one turn of the loop: the tree named, or its exception caught
Named(r, s, parsed) ==
    [st |-> Caught(s, parsed.file), what |-> Append(r.what, NamedTree(s, parsed))]

\* for (auto &tree : what) { try { ... } catch (SorbetException &) { ... } }
RECURSIVE NameTrees(_, _, _)
NameTrees(r, what, fails) ==
    IF Len(r.what) = Len(what) THEN r
    ELSE NameTrees(Named(r, NameTree(r.st, what[Len(r.what) + 1], fails),
                         what[Len(r.what) + 1]),
                   what, fails)

\* pipeline::name; an exception of configatron leaves the call
name(st, what, o, skipConfigatron, configatronRaises, fails) ==
    LET s == IF skipConfigatron THEN st ELSE fillInFromFileSystem(st, configatronRaises) IN
    IF s.thrown THEN [st |-> s, what |-> what]
    ELSE NameTrees([st |-> s, what |-> <<>>], what, fails)

\* the body of the first loop of incrementalResolve for one tree
IncrementalNameTree(st, parsed, fails) ==
    LET Run(s) == NamerRun(s, parsed, fails)
        Names(s) == WithUnfreeze(s, "names", Run) IN
    WithUnfreeze(st, "symbols", Names)

RECURSIVE IncrementalNameTrees(_, _, _)
IncrementalNameTrees(r, what, fails) ==
    IF Len(r.what) = Len(what) THEN r
    ELSE IncrementalNameTrees(Named(r, IncrementalNameTree(r.st, what[Len(r.what) + 1], fails),
                                    what[Len(r.what) + 1]),
                              what, fails)

\* resolver::Resolver::runTreePasses under both scopes
runTreePasses(st, raises) ==
    LET Resolve(s) == IF raises THEN Throw(s, "resolver")
                      ELSE EnterSymbol(Ev(s, "phase", "resolver"))
        Names(s) == WithUnfreeze(s, "names", Resolve) IN
    WithUnfreeze(st, "symbols", Names)

\* the outer catch: a diagnostic on no file; the trees were moved away
Resolved(s, what) ==
    [st |-> Caught(s, 0), what |-> IF s.thrown THEN <<>> ELSE what]

\* pipeline::incrementalResolve
incrementalResolve(st, what, o, fails, resolverRaises) ==
    LET named == IncrementalNameTrees([st |-> st, what |-> <<>>], what, fails) IN
    Resolved(runTreePasses(named.st, resolverRaises), named.what)

\* pipeline::index as the caller of this specification sees it: the state,
\* the trees and the scopes taken; three files or more go to a pool of one
IndexCall(gs, errors, files, kv, o) ==
    IF o.stopAfterPhase = "INIT" THEN [gs |-> gs, errors |-> errors, trees |-> <<>>, log |-> <<>>]
    ELSE IF Len(files) < 3
    THEN LET acc == IndexInline(NewAcc(gs, errors, kv), files, o) IN
         [gs |-> acc.gs, errors |-> acc.errors, trees |-> SortByFile(acc.ret), log |-> acc.log]
    ELSE LET r == OneWorkerIndex(gs, errors, files, kv, o) IN
         [gs |-> r.gs, errors |-> errors, trees |-> r.trees, log |-> <<>>]

\* what the caller saw of a call: the freeze flags before and after, the
\* scopes and phases in between, and whether an exception left the call
Called(op, before, after, log, threw, violation) ==
    [op |-> op, before |-> before, after |-> after, log |-> log, threw |-> threw,
     violation |-> violation]

\* the sets of files the namer may raise on: none, or one of the first two
FailPool(what) == {{}} \cup {{what[i].file} : i \in (DOMAIN what) \cap 1..2}

ScopesInit ==
    /\ \E n \in 1..MaxFiles, names \in BOOLEAN, symbols \in BOOLEAN, files \in BOOLEAN :
          /\ gss = [g \in 0..MaxWorkers |->
                      IF g = 0
                      THEN [reserveFiles(NewGs(1), n) EXCEPT !.nameTableFrozen = names,
                                                             !.symbolTableFrozen = symbols,
                                                             !.fileTableFrozen = files]
                      ELSE NoGs]
          /\ co = [pc |-> "idle", files |-> [i \in 1..n |-> i], run |-> 0, job |-> 0,
                   pass |-> 0, bound |-> 0, merged |-> 0, ret |-> EmptyIndexResult,
                   firstPass |-> EmptyIndexResult, returned |-> <<>>]
    /\ opts \in {o \in OptionsPool : ~o.kvstore}
    /\ debug_mode = TRUE
    /\ halted = FALSE
    /\ call = NoCall
    /\ kvstore = <<>>
    /\ fileq = <<>>
    /\ resultq = <<>>
    /\ wk = <<>>
    /\ errorQueue = {}
    /\ hist = NoHist

ScopesIndex ==
    /\ co.pc = "idle"
    /\ \E r \in {IndexCall(gss[0], errorQueue, co.files, kvstore, opts)} :
       /\ gss' = [gss EXCEPT ![0] = r.gs]
       /\ errorQueue' = r.errors
       /\ co' = [co EXCEPT !.pc = "indexed", !.run = 1, !.returned = r.trees]
       /\ call' = Called("index", Flags(gss[0]), Flags(r.gs), r.log, FALSE, FALSE)
    /\ UNCHANGED <<debug_mode, halted, opts, kvstore, fileq, resultq, wk, hist>>

ScopesName ==
    /\ co.pc = "indexed"
    /\ \E skipConfigatron \in BOOLEAN, configatronRaises \in BOOLEAN,
          fails \in FailPool(co.returned) :
       \E r \in {name(NewSt(gss[0], errorQueue), co.returned, opts, skipConfigatron,
                      configatronRaises, fails)} :
       /\ gss' = [gss EXCEPT ![0] = r.st.gs]
       /\ errorQueue' = r.st.errors
       /\ co' = [co EXCEPT !.pc = IF r.st.thrown THEN "unwound" ELSE "named",
                           !.returned = r.what]
       /\ call' = Called("name", Flags(gss[0]), Flags(r.st.gs), r.st.log, r.st.thrown,
                         r.st.violation)
    /\ UNCHANGED <<debug_mode, halted, opts, kvstore, fileq, resultq, wk, hist>>

ScopesIncrementalResolve ==
    /\ co.pc = "named"
    /\ \E resolverRaises \in BOOLEAN,
          fails \in FailPool(co.returned) :
       \E r \in {incrementalResolve(NewSt(gss[0], errorQueue),
                                    SelectSeq(co.returned, LAMBDA t : t.tree.kind # "nullptr"),
                                    opts, fails, resolverRaises)} :
       /\ gss' = [gss EXCEPT ![0] = r.st.gs]
       /\ errorQueue' = r.st.errors
       /\ co' = [co EXCEPT !.pc = "resolved", !.returned = r.what]
       /\ call' = Called("incrementalResolve", Flags(gss[0]), Flags(r.st.gs), r.st.log,
                         r.st.thrown, r.st.violation)
    /\ UNCHANGED <<debug_mode, halted, opts, kvstore, fileq, resultq, wk, hist>>

ScopesNext ==
    \/ ScopesIndex
    \/ ScopesName
    \/ ScopesIncrementalResolve

SpecScopes == ScopesInit /\ [][ScopesNext]_vars

(***************************************************************************)
(* The per-file specification: a caller that holds a file table with one   *)
(* reserved slot for each path of the file system, reads files under the   *)
(* strictness options of the run, and calls index for one or two files,    *)
(* with a stopAfterPhase of its choice, once and then again with the       *)
(* cache the first call left.                                              *)
(***************************************************************************)
\* the paths of the file system, one for each kind of source
NumPaths == 9

MaxCalls == 2

\* the values of stopAfterPhase; NONE stands for the phases after indexing
AllStops == {"INIT", "PARSER", "DESUGARER", "DSL", "LOCAL_VARS", "NONE"}

\* the key under which the options hold the override of a supplied file:
\* the absolute path, or the relative one after `./`
WrittenKey(i) ==
    [prefix |-> IF PathOf(i, 0).prefix = "/" THEN "/" ELSE "./", rest |-> PathOf(i, 0).rest]

\* strictnessOverrides: none, or one level for every path
OverridesPool ==
    {<<>>} \cup {[key \in {WrittenKey(i) : i \in 1..NumPaths} |-> level] :
                   level \in {"True", "Strict", "Internal", "Autogenerated"}}

\* forceMinStrict and forceMaxStrict: the defaults, a lower maximum, a
\* higher minimum, and a minimum above the maximum
ForcePool == {<<"Ignore", "Max">>, <<"Ignore", "True">>, <<"Strict", "Strong">>, <<"Strict", "True">>}

PlainOptions(o) ==
    /\ o.strictnessOverrides = <<>>
    /\ <<o.forceMinStrict, o.forceMaxStrict>> = <<"Ignore", "Max">>

\* the supplied files of a call: one file, or two
FileLists ==
    {<<f>> : f \in 1..NumPaths} \cup
    {<<p[1], p[2]>> : p \in {q \in (1..NumPaths) \X (1..NumPaths) : q[1] < q[2]}}

FilesInit ==
    /\ \E autogen \in BOOLEAN :
          gss = [g \in 0..0 |->
                    [reserveFiles(NewGs(1), NumPaths) EXCEPT !.runningUnderAutogen = autogen]]
    /\ \E cache \in BOOLEAN, overrides \in OverridesPool, force \in ForcePool :
          opts = [Options("NONE", cache) EXCEPT !.strictnessOverrides = overrides,
                                                !.forceMinStrict = force[1],
                                                !.forceMaxStrict = force[2]]
    /\ debug_mode = TRUE
    /\ halted = FALSE
    /\ call = NoCall
    /\ co = [pc |-> "idle", run |-> 0]
    /\ kvstore = <<>>
    /\ fileq = <<>>
    /\ resultq = <<>>
    /\ wk = <<>>
    /\ errorQueue = {}
    /\ hist = NoHist

\* the caller reads a file: the slot is filled and the level decided
FileRead ==
    /\ co.run < MaxCalls
    /\ \E file \in 1..NumPaths :
       \E st \in {readFileWithStrictnessOverrides(NewSt(gss[0], errorQueue), file, opts)} :
       /\ gss[0].files[file].sourceType = "NotYetRead"
       /\ gss' = [gss EXCEPT ![0] = st.gs]
       /\ errorQueue' = st.errors
       /\ call' = [op |-> "read", file |-> file,
                   key |-> OverrideKey(st.gs.files[file].path),
                   sigil |-> st.gs.files[file].originalSigil,
                   override |-> IF OverrideKey(st.gs.files[file].path)
                                      \in DOMAIN opts.strictnessOverrides
                                THEN opts.strictnessOverrides[OverrideKey(st.gs.files[file].path)]
                                ELSE "absent",
                   chosen |-> OverrideOrSigil(st.gs, file, opts),
                   level |-> st.gs.files[file].strictLevel,
                   useless |-> [file |-> file, what |-> "ParserError"] \in st.errors,
                   threw |-> st.thrown]
       /\ co' = [co EXCEPT !.pc = "read", !.run = @ + 1]
    /\ UNCHANGED <<debug_mode, halted, opts, kvstore, fileq, resultq, wk, hist>>

\* index with stopAfterPhase == INIT returns at once
FileIndexStopAtInit ==
    /\ co.run < MaxCalls
    /\ PlainOptions(opts) /\ ~gss[0].runningUnderAutogen
    /\ \E files \in FileLists :
       /\ opts' = [opts EXCEPT !.stopAfterPhase = "INIT"]
       /\ call' = [op |-> "index", stop |-> "INIT", files |-> files,
                   before |-> [gs |-> gss[0], errors |-> errorQueue, kv |-> kvstore],
                   trees |-> <<>>, ran |-> <<>>, threw |-> FALSE]
       /\ co' = [co EXCEPT !.pc = "indexed", !.run = @ + 1]
    /\ UNCHANGED <<gss, debug_mode, halted, kvstore, fileq, resultq, wk, errorQueue, hist>>

\* index of the files, which are fewer than three
FileIndex ==
    /\ co.run < MaxCalls
    /\ PlainOptions(opts) /\ ~gss[0].runningUnderAutogen
    /\ \E files \in FileLists, stop \in AllStops \ {"INIT"}, skip \in BOOLEAN :
       \E o \in {[opts EXCEPT !.stopAfterPhase = stop, !.skipDSLPasses = skip]} :
       \E acc \in {IndexInline(NewAcc(gss[0], errorQueue, kvstore), files, o)} :
       /\ opts' = o
       /\ gss' = [gss EXCEPT ![0] = acc.gs]
       /\ kvstore' = acc.kv
       /\ errorQueue' = acc.errors
       /\ call' = [op |-> "index", stop |-> stop, files |-> files,
                   before |-> [gs |-> gss[0], errors |-> errorQueue, kv |-> kvstore],
                   trees |-> SortByFile(acc.ret), ran |-> acc.ran, threw |-> acc.thrown]
       /\ co' = [co EXCEPT !.pc = "indexed", !.run = @ + 1]
    /\ UNCHANGED <<debug_mode, halted, fileq, resultq, wk, hist>>

FilesNext ==
    \/ FileRead
    \/ FileIndexStopAtInit
    \/ FileIndex

SpecFile == FilesInit /\ [][FilesNext]_vars

(***************************************************************************)
(* Properties of the name table.                                           *)
(***************************************************************************)
IsEnter(c) == c.op \in {"enterNameUTF8", "enterNameConstant", "freshNameUnique"}

\* the ids that hold name nm in table names
IdsOf(names, nm) == {i \in 1..Len(names) : names[i] = nm}

\* following `original` from id reaches a UTF8 name within `fuel` steps
RECURSIVE ReachesUTF8(_, _, _)
ReachesUTF8(names, id, fuel) ==
    /\ id \in 1..Len(names)
    /\ \/ names[id].kind = "UTF8"
       \/ fuel > 0 /\ ReachesUTF8(names, names[id].original, fuel - 1)

\* C6: interning is idempotent and injective for the three kinds: a call
\* that finds an equal name returns its id and allocates nothing, a call
\* that finds none returns the next new id, and no two ids of a table hold
\* equal names.
C6_InterningIdempotentInjective ==
    /\ \A g \in 0..1 : gss[g].exists =>
          \A i, j \in 1..Len(gss[g].names) :
              i # j => gss[g].names[i] # gss[g].names[j]
    /\ (IsEnter(call) /\ ~call.violation) =>
          LET after == gss[call.gs].names
              present == IdsOf(call.before, call.nm) IN
          /\ call.ref \in 1..Len(after)
          /\ after[call.ref] = call.nm
          /\ present # {} => call.ref \in present /\ after = call.before
          /\ present = {} => call.ref = Len(call.before) + 1
                             /\ after = Append(call.before, call.nm)

\* a UNIQUE name that is present is entered again
C6_Witness ==
    /\ call.op = "freshNameUnique"
    /\ ~call.violation
    /\ IdsOf(call.before, call.nm) # {}
    /\ Len(call.before) = MaxNames

\* C7: in every table, the base one and its deep copy, a UNIQUE or CONSTANT
\* name is younger than its original, and the `original` links of any name
\* lead to a UTF8 name.
C7_OriginalIsOlder ==
    \A g \in 0..1 : gss[g].exists =>
        \A i \in 1..Len(gss[g].names) :
            /\ gss[g].names[i].kind \in {"UNIQUE", "CONSTANT"} =>
                  /\ gss[g].names[i].original >= 1
                  /\ gss[g].names[i].original < i
            /\ ReachesUTF8(gss[g].names, i, Len(gss[g].names))

\* a deep copy holds a CONSTANT over a UNIQUE over a UTF8 name
C7_Witness ==
    /\ call.op = "deepCopy"
    /\ Len(gss[1].names) = 3
    /\ gss[1].names[3].kind = "CONSTANT" /\ gss[1].names[3].original = 2
    /\ gss[1].names[2].kind = "UNIQUE" /\ gss[1].names[2].original = 1

\* C8 as stated: entering an absent name into a frozen table is a contract
\* violation and adds no name; re-entering a present name never fails,
\* returns the existing id and leaves the table unchanged.
C8_FrozenEnterAddsNothing ==
    IsEnter(call) =>
        LET after == gss[call.gs].names
            present == IdsOf(call.before, call.nm) IN
        /\ (call.frozenBefore /\ present = {}) =>
              call.violation /\ after = call.before
        /\ present # {} =>
              ~call.violation /\ call.ref \in present /\ after = call.before

\* C8 amended: in a build with ENFORCE compiled in, entering an absent name
\* into a frozen table is a fatal contract violation and adds no name; in
\* every build re-entering a present name never fails, returns the existing
\* id and leaves the table unchanged, frozen or not.
C8_FrozenEnterDebug ==
    IsEnter(call) =>
        LET after == gss[call.gs].names
            present == IdsOf(call.before, call.nm) IN
        /\ (debug_mode /\ call.frozenBefore /\ present = {}) =>
              call.violation /\ halted /\ after = call.before
        /\ present # {} =>
              ~call.violation /\ ~halted /\ call.ref \in present /\ after = call.before

\* a present name is re-entered into a frozen table
C8_Witness ==
    /\ IsEnter(call)
    /\ call.frozenBefore
    /\ IdsOf(call.before, call.nm) # {}
    /\ call.ref > LAST_WELL_KNOWN_NAME

(***************************************************************************)
(* Properties of indexing.                                                 *)
(***************************************************************************)
\* the trees in the order returned, each with its FileRef
ByFileRef(texts) == [i \in DOMAIN texts |-> [file |-> texts[i].file, text |-> texts[i].text]]

\* the trees with the path of their file in place of its FileRef
ByPath(texts) == {[path |-> texts[i].path, text |-> texts[i].text] : i \in DOMAIN texts}

ParallelReturned ==
    co.pc = "returned" /\ Len(co.files) >= 3 /\ opts.stopAfterPhase # "INIT"

\* C1: indexing is order-independent: whatever the number of workers and
\* their interleaving, the trees index returns, sorted by FileRef, say what
\* the trees returned with a pool of one worker say (equal up to name ids).
C1_OrderIndependent ==
    ParallelReturned => ByFileRef(Returned) = ByFileRef(hist.oneWorker)

\* the FileRefs index has to return trees for: the supplied ones and the
\* ones the generated files received
ExpectedFiles ==
    co.files \o [j \in 1..hist.generated |-> hist.startFiles + j]

Range(seq) == {seq[i] : i \in DOMAIN seq}

\* C2: index (stopAfterPhase other than INIT) returns exactly one parsed
\* file for each supplied FileRef and for each plugin-generated file, the
\* missing, ignored and failed ones included; each file was indexed once,
\* by one worker; the vector is sorted by ascending FileRef.
C2_OneTreePerFileSorted ==
    (co.pc = "returned" /\ opts.stopAfterPhase # "INIT") =>
        /\ [i \in DOMAIN co.returned |-> co.returned[i].file] = ExpectedFiles
        /\ \A i \in DOMAIN co.returned : co.returned[i].tree.kind # "nullptr"
        /\ \A i, j \in DOMAIN co.returned : i < j => co.returned[i].file < co.returned[j].file
        /\ DOMAIN hist.ran = Range(ExpectedFiles)
        /\ \A f \in DOMAIN hist.ran : hist.ran[f].times = 1

\* a parallel run of four files returned seven trees: one file was missing,
\* one ignored, one generated file failed, and two workers took part
C2_Witness ==
    /\ ParallelReturned
    /\ Len(co.returned) = 7
    /\ {"FileNotFound", "InternalError"} \subseteq {e.what : e \in errorQueue}
    /\ \E f \in DOMAIN hist.ran : gss[0].files[f].strictLevel = "Ignore"
    /\ \E f, g \in DOMAIN hist.ran : hist.ran[f].by # hist.ran[g].by

\* a step of worker w: its deep copy, a pop with the read and the indexing
\* of the file, or its hand-over
WorkerStep(w) == (wk[w].pc = "run" \/ wk'[w].pc = "run") /\ wk'[w] # wk[w]

\* C3: the tables a worker writes while it reads and indexes a file are
\* those of its own deep copy: a step of a worker leaves the base state,
\* the other workers' states, the coordinator's result and the cache as
\* they were; of the state it shares it writes the error queue only, and
\* only adds diagnostics to it.
C3_WorkerWritesOwnClone ==
    [][\A w \in Workers :
          WorkerStep(w) =>
              /\ \A g \in (DOMAIN gss) \ {w} : gss'[g] = gss[g]
              /\ co' = co
              /\ kvstore' = kvstore
              /\ errorQueue \subseteq errorQueue']_vars

\* C3 as stated: a step of a worker writes nothing but its own deep copy,
\* so nothing that another worker or the coordinator reads or writes.
C3_WorkerWritesNothingShared ==
    [][\A w \in Workers :
          WorkerStep(w) =>
              /\ \A g \in (DOMAIN gss) \ {w} : gss'[g] = gss[g]
              /\ co' = co
              /\ kvstore' = kvstore
              /\ errorQueue' = errorQueue]_vars

\* two workers have each indexed files into their clones, which now differ
\* from each other and from the base state
C3_Witness ==
    /\ co.pc = "merge"
    /\ \E v, w \in Workers :
          /\ v # w
          /\ wk[v].pc = "run" /\ wk[w].pc = "run"
          /\ wk[v].trees # <<>> /\ wk[w].trees # <<>>
          /\ gss[v].names # gss[w].names
          /\ gss[v].names # gss[0].names /\ gss[w].names # gss[0].names
    /\ errorQueue # {}

\* C4: every tree the merge substituted says in the destination state what
\* it said in the source state: each NameRef denotes a name of `to` with
\* the textual form (showRaw, through original) it had in `from`.
C4_SubstitutionPreservesNames ==
    \A rec \in hist.substituted :
        rec.substituted => (rec.valid /\ rec.after = rec.before)

\* a tree with names was substituted and its NameRefs did change
C4_Witness ==
    \E rec \in hist.substituted :
        /\ rec.substituted /\ rec.rewritten
        /\ Len(rec.before.nodes) > 1
        /\ rec.after = rec.before

\* what the tree of file f said in the state that produced it: for a tree
\* from the cache, what the earlier call returned for the file
ProducedText(f) ==
    IF hist.ran[f].hit
    THEN {p.text : p \in {q \in Range(hist.prev) : q.file = f}}
    ELSE {hist.ran[f].text}

\* C5: when index returns, every NameRef of every returned tree is valid in
\* the returned state and denotes there the name it denoted in the state
\* that produced the tree: first batch, later batches, cache hits alike.
C5_ReturnedTreesValid ==
    (co.pc = "returned" /\ opts.stopAfterPhase # "INIT") =>
        \A i \in DOMAIN co.returned :
            /\ ValidTree(gss[0], co.returned[i].tree)
            /\ co.returned[i].file \in DOMAIN hist.ran
            /\ ProducedText(co.returned[i].file) = {TreeText(gss[0], co.returned[i].tree)}

\* a parallel run returned trees with names that two workers produced
C5_Witness ==
    /\ ParallelReturned
    /\ \E i, j \in DOMAIN co.returned :
          /\ hist.ran[co.returned[i].file].by # hist.ran[co.returned[j].file].by
          /\ Len(co.returned[i].tree.nodes) > 1
          /\ Len(co.returned[j].tree.nodes) > 1

\* a parallel run returned trees that two workers took from the cache
C5_WitnessCacheHit ==
    /\ ParallelReturned
    /\ \E i, j \in DOMAIN co.returned :
          /\ hist.ran[co.returned[i].file].by # hist.ran[co.returned[j].file].by
          /\ hist.ran[co.returned[i].file].hit /\ hist.ran[co.returned[j].file].hit
          /\ Len(co.returned[i].tree.nodes) > 1
          /\ Len(co.returned[j].tree.nodes) > 1

ParsePhases == {"parser", "desugar", "dsl", "local_vars"}

\* C10: a file indexed with a cache and indexed again, path and source the
\* same, is a cache hit the second time: the file is marked cachedParseTree,
\* none of parse, desugar, DSL and local-vars runs, and the tree says what
\* the tree of the first, non-cached indexing said.
C10_CacheRoundTrip ==
    (opts.kvstore /\ co.run = 2) =>
        \A f \in DOMAIN hist.ran :
            (\E p \in Range(hist.prev) : p.file = f) =>
                /\ hist.ran[f].hit
                /\ hist.ran[f].marked
                /\ hist.ran[f].phases \cap ParsePhases = {}
                /\ \E p \in Range(hist.prev) : p.file = f /\ p.text = hist.ran[f].text

\* the second indexing of a file whose tree has names was a cache hit
C10_Witness ==
    /\ opts.kvstore /\ co.run = 2
    /\ \E f \in DOMAIN hist.ran :
          /\ hist.ran[f].hit
          /\ Len(hist.ran[f].text.nodes) > 1
          /\ \E p \in Range(hist.prev) : p.file = f

\* what holds of C1: without plugin-generated files the result is that of
\* one worker, and with them it is so once files are named by path
OrderIndependentByPath ==
    ParallelReturned =>
        /\ ByPath(Returned) = ByPath(hist.oneWorker)
        /\ Len(Returned) = Len(hist.oneWorker)
        /\ hist.generated = 0 => ByFileRef(Returned) = ByFileRef(hist.oneWorker)

\* the scopes open once an event is over, innermost last
AfterEvent(open, e) ==
    CASE e.ev = "acquire" -> Append(open, e.what)
      [] e.ev = "release" -> SubSeq(open, 1, Len(open) - 1)
      [] OTHER -> open

\* the scopes open before the first event of a log and after each event
RECURSIVE OpenScopes(_, _, _)
OpenScopes(log, k, stacks) ==
    IF k > Len(log) THEN stacks
    ELSE OpenScopes(log, k + 1, Append(stacks, AfterEvent(stacks[Len(stacks)], log[k])))

FlagOf(flags, table) ==
    CASE table = "names" -> flags[1]
      [] table = "symbols" -> flags[2]
      [] table = "files" -> flags[3]

\* every release ends the innermost open scope, no scope stays open, and a
\* table that an open scope holds is unfrozen at every event
ScopesNested(log) ==
    \E open \in {OpenScopes(log, 1, << <<>> >>)} :
        /\ open[Len(open)] = <<>>
        /\ \A k \in DOMAIN log :
              /\ log[k].ev = "release" =>
                    /\ open[k] # <<>>
                    /\ open[k][Len(open[k])] = log[k].what
              /\ \A t \in Range(open[k + 1]) : ~FlagOf(log[k].flags, t)

\* C9: when index, name or incrementalResolve is over (returned, or left by
\* an exception no handler of its own took) the name, symbol and file
\* tables are frozen exactly as before the call, every scope it took is
\* released, innermost first, and a table is unfrozen for as long as a
\* scope holds it.
C9_ScopesReleased ==
    call.op \in {"index", "name", "incrementalResolve"} =>
        /\ call.after = call.before
        /\ ScopesNested(call.log)
        /\ ~call.violation

\* a call returned after an exception became an InternalError diagnostic;
\* the name table was frozen before, was unfrozen under a scope, and the
\* caller itself holds another table unfrozen
C9_Witness ==
    /\ call.op \in {"index", "name", "incrementalResolve"}
    /\ ~call.threw
    /\ \E k \in DOMAIN call.log : call.log[k].ev = "catch"
    /\ \E k \in DOMAIN call.log : call.log[k].ev = "acquire" /\ call.log[k].what = "names"
    /\ call.before[1] /\ call.after[1]
    /\ \E t \in 2..3 : ~call.before[t]

(***************************************************************************)
(* Properties of the cache during parallel indexing.                       *)
(***************************************************************************)
\* the store was read for the file: the lookup counted a hit or a miss
CacheRead(ran) == ran.phases \cap {"cache_hit", "cache_miss"} # {}

\* the coordinator takes one result off the result queue and merges it
MergeStep == co.pc = "merge" /\ resultq # <<>> /\ resultq' = Tail(resultq) /\ wk' = wk

\* C11: during parallel indexing the cache is written only by the
\* coordinator, in the merge of a popped result; a step of a worker never
\* writes it.  Workers do read it: with a store configured, a worker looks
\* every file it pops up in the cache before it indexes it.
C11_CacheWrittenByCoordinator ==
    /\ [][(co.pc = "merge" /\ kvstore' # kvstore) => MergeStep]_vars
    /\ [][\A w \in Workers : WorkerStep(w) => kvstore' = kvstore]_vars
    /\ [](\A f \in DOMAIN hist.ran :
             (hist.ran[f].by # 0 /\ opts.kvstore) => CacheRead(hist.ran[f]))

\* C11 as stated: the cache is written by the coordinator's merge only,
\* and no worker ever accesses it, for reading or for writing.
C11_WorkersNeverAccessCache ==
    /\ [][(co.pc = "merge" /\ kvstore' # kvstore) => MergeStep]_vars
    /\ [](\A f \in DOMAIN hist.ran : hist.ran[f].by # 0 => ~CacheRead(hist.ran[f]))

\* the coordinator has written merged trees to the cache while a worker,
\* which looked its file up in the cache and missed, is still running
C11_Witness ==
    /\ co.pc = "merge" /\ co.merged > 0 /\ co.run = 1
    /\ kvstore # <<>>
    /\ \E w \in Workers :
          /\ wk[w].pc = "run"
          /\ \E f \in DOMAIN hist.ran :
                hist.ran[f].by = w /\ "cache_miss" \in hist.ran[f].phases

(***************************************************************************)
(* Properties of the indexing of one file.                                 *)
(***************************************************************************)
\* a collaborator raised while the file of this entry was indexed
Raised(entry) == \E k \in DOMAIN entry.log : entry.log[k].ev = "throw"

\* the tree the call returned for the file
TreeOf(file) == CHOOSE t \in {call.trees[i].tree : i \in {j \in DOMAIN call.trees : call.trees[j].file = file}} : TRUE

\* what index returns for the file when it is the only file of the call
IndexedAlone(file) ==
    LET acc == IndexInline(NewAcc(call.before.gs, call.before.errors, call.before.kv),
                           <<file>>, opts) IN
    TreeText(acc.gs, acc.ret[1].tree)

IndexReturned == call.op = "index" /\ call.stop # "INIT" /\ ~call.threw

\* C12: an exception raised by a collaborator in any phase of the indexing
\* of a file (parser, desugarer, plugin, DSL, local-vars) becomes an
\* InternalError diagnostic on that file and an empty tree for it; index
\* still returns one tree for every file of the call, and the tree of
\* every other supplied file says what it says when the file is indexed
\* without the failing one.
C12_FailureIsolated ==
    IndexReturned =>
        /\ \A i \in DOMAIN call.ran :
              Raised(call.ran[i]) =>
                  /\ [file |-> call.ran[i].file, what |-> "InternalError"] \in errorQueue
                  /\ TreeOf(call.ran[i].file) = EmptyTree
                  /\ ~call.ran[i].hit
        /\ Len(call.trees) = Len(call.ran)
        /\ {call.trees[i].file : i \in DOMAIN call.trees} = {call.ran[i].file : i \in DOMAIN call.ran}
        /\ \A i \in DOMAIN call.files :
              /\ \E j \in DOMAIN call.ran : call.ran[j].file = call.files[i]
              /\ (\A j \in DOMAIN call.ran :
                     call.ran[j].file = call.files[i] => ~Raised(call.ran[j]))
                  => TreeText(gss[0], TreeOf(call.files[i])) = IndexedAlone(call.files[i])

\* the first file of a call failed in local-vars, its last phase, and the
\* second file was indexed to a tree with names
C12_Witness ==
    /\ IndexReturned
    /\ Len(call.files) = 2
    /\ \E k \in DOMAIN call.ran[1].log :
          call.ran[1].log[k].ev = "throw" /\ call.ran[1].log[k].what = "local_vars"
    /\ Len(TreeOf(call.files[2]).nodes) > 1

EarlyStops == {"PARSER", "DESUGARER", "DSL", "LOCAL_VARS"}

\* C13: with stopAfterPhase Parser, Desugarer, DSL or LocalVars the tree
\* returned for every file, cached or not, is the empty tree; with
\* stopAfterPhase Init, index returns no tree and reads no file.
C13_StopReturnsEmpty ==
    call.op = "index" =>
        /\ call.stop \in EarlyStops =>
              \A i \in DOMAIN call.trees :
                  call.trees[i].tree.kind = "EmptyTree" /\ call.trees[i].tree.nodes = <<>>
        /\ call.stop = "INIT" =>
              /\ call.trees = <<>>
              /\ gss[0] = call.before.gs /\ errorQueue = call.before.errors

\* what holds of C13: the tree is empty for every file that was not taken
\* from the cache, and for every file when the stop phase is DSL; Init
\* returns no tree and reads no file
StopReturnsEmptyOnMiss ==
    call.op = "index" =>
        /\ call.stop \in EarlyStops =>
              \A i \in DOMAIN call.ran :
                  (~call.ran[i].hit \/ call.stop = "DSL") =>
                      /\ TreeOf(call.ran[i].file).kind = "EmptyTree"
                      /\ TreeOf(call.ran[i].file).nodes = <<>>
        /\ call.stop = "INIT" =>
              /\ call.trees = <<>>
              /\ gss[0] = call.before.gs /\ errorQueue = call.before.errors

(***************************************************************************)
(* Properties of decideStrictLevel, on the files the caller reads.         *)
(***************************************************************************)
\* the level the precedence of override, sigil and default gives
ByPrecedence ==
    IF call.override # "absent" THEN call.override
    ELSE IF call.sigil # "None" THEN call.sigil
    ELSE "False"

\* C14: before clamping, the level of a file is the strictness override
\* of its path when there is one, otherwise the sigil written in the
\* source, otherwise False; a useless-override diagnostic is emitted
\* exactly when there is an override and it equals the sigil.  Where the
\* clamp and autogen leave the level alone, it is the level of the file.
C14_OverrideThenSigilThenFalse ==
    call.op = "read" =>
        /\ call.chosen = ByPrecedence
        /\ call.useless <=> (call.override # "absent" /\ call.override = call.sigil)
        /\ (PlainOptions([opts EXCEPT !.strictnessOverrides = <<>>])
               /\ ~gss[0].runningUnderAutogen) => call.level = ByPrecedence

\* a file with the sigil True is read under an override to Strict
C14_Witness ==
    /\ call.op = "read"
    /\ call.sigil = "True" /\ call.override = "Strict"
    /\ call.level = "Strict" /\ ~call.useless

\* the level lies in [forceMinStrict, forceMaxStrict], is the level chosen
\* when that lies there, and the nearer end otherwise; with the minimum
\* above the maximum it is the minimum
ClampedInto(level, chosen, o) ==
    LET lo == LevelRank(o.forceMinStrict)
        hi == LevelRank(o.forceMaxStrict) IN
    IF lo > hi THEN level = o.forceMinStrict
    ELSE /\ LevelRank(level) >= lo /\ LevelRank(level) <= hi
         /\ (LevelRank(chosen) >= lo /\ LevelRank(chosen) <= hi) => level = chosen
         /\ LevelRank(chosen) < lo => level = o.forceMinStrict
         /\ LevelRank(chosen) > hi => level = o.forceMaxStrict

\* the levels above Ignore and up to Max
ClampedLevels == {"False", "True", "Strict", "Strong", "Max"}

\* C15: outside autogen, decideStrictLevel clamps the chosen level into
\* [forceMinStrict, forceMaxStrict] when it is above Ignore and not above
\* Max (False, True, Strict, Strong, Max) and leaves every other level as
\* chosen: Ignore and Internal, and also Autogenerated and Stdlib.
C15_ClampedBetweenIgnoreAndMax ==
    (call.op = "read" /\ ~gss[0].runningUnderAutogen) =>
        IF call.chosen \in ClampedLevels
        THEN ClampedInto(call.level, call.chosen, opts)
        ELSE call.level = call.chosen

\* C15 as stated: every level except Ignore and Internal is clamped, and
\* exactly those two are left as chosen.
C15_ClampsAllButIgnoreInternal ==
    (call.op = "read" /\ ~gss[0].runningUnderAutogen) =>
        IF call.chosen \notin {"Ignore", "Internal"}
        THEN ClampedInto(call.level, call.chosen, opts)
        ELSE call.level = call.chosen

\* a file with the sigil Autogenerated is read under forceMaxStrict True
\* and keeps its level
C15_Witness ==
    /\ call.op = "read" /\ ~gss[0].runningUnderAutogen
    /\ call.chosen = "Autogenerated" /\ call.level = "Autogenerated"
    /\ opts.forceMaxStrict = "True"

\* C16: under autogen, the level decided for every file is False, whatever
\* its override, its sigil, forceMinStrict and forceMaxStrict.
C16_AutogenForcesFalse ==
    (call.op = "read" /\ gss[0].runningUnderAutogen) => call.level = "False"

\* under autogen a file is read whose override is Strict, with
\* forceMinStrict Strict
C16_Witness ==
    /\ call.op = "read" /\ gss[0].runningUnderAutogen
    /\ call.chosen = "Strict" /\ opts.forceMinStrict = "Strict"
    /\ call.level = "False"

NameRefDebugCheck(gs, id) ==
    LET knew == {k \in DOMAIN gs.deepCloneHistory :
                    id < gs.deepCloneHistory[k].lastNameKnownByParentGlobalState} IN
    IF knew = {} THEN gs.globalStateId
    ELSE gs.deepCloneHistory[MinOf(knew)].globalStateId

\* NameRef(gs, id) of a debug build
NameRef(gs, id) == [id |-> id, globalStateId |-> NameRefDebugCheck(gs, id)]

\* a check that takes any record of the owner in the history
checkAnyRecord(globalStateId, gs, id) ==
    \/ globalStateId = -1
    \/ id <= LAST_WELL_KNOWN_NAME
    \/ globalStateId = gs.globalStateId
    \/ \E k \in DOMAIN gs.deepCloneHistory :
          globalStateId = gs.deepCloneHistory[k].globalStateId

\* NameRefDebugCheck::check(gs, _id): TRUE when the ENFORCE is not reached
check(globalStateId, gs, id) ==
    \/ globalStateId = -1
    \/ id <= LAST_WELL_KNOWN_NAME
    \/ globalStateId = gs.globalStateId
    \/ \E k \in DOMAIN gs.deepCloneHistory :
          /\ globalStateId = gs.deepCloneHistory[k].globalStateId
          /\ id < gs.deepCloneHistory[k].lastNameKnownByParentGlobalState

\* a guard that never fires
checkSubstNever(globalStateId, subst) == TRUE

\* NameRefDebugCheck::check(subst): TRUE when the ENFORCE holds
checkSubst(globalStateId, subst) == globalStateId # subst.to.globalStateId

\* GlobalSubstitution::substitute on the NameRefs of a tree, in order:
\* sanityCheckSubstitution on each, then the NameRef of `to` the map holds
substituteRefs(subst, refs) ==
    [refs |-> [k \in DOMAIN refs |-> NameRef(subst.to, SubstituteName(subst, refs[k].id))],
     violation |-> \E k \in DOMAIN refs : ~checkSubst(refs[k].globalStateId, subst)]

(***************************************************************************)
(* The ownership specification: a family of global states grows by         *)
(* deepCopy of any member and by names entered into any member; NameRefs   *)
(* of one member are checked against another, and the NameRefs of a tree   *)
(* are substituted from one member to another, once and then again.        *)
(***************************************************************************)
MaxStates == 3

MaxRefNames == 3

RefUtf8Pool == {"b", "c"}

\* the operations that change a global state, over one behaviour
MaxRefSteps == 6

Members == {g \in DOMAIN gss : gss[g].exists}

\* the names a caller may enter into gs: a UTF8 name, or a constant or a
\* unique name of the first name after the well-known ones
RefNamePool(gs) ==
    LET originals == {i \in 1..Len(gs.names) :
                         i = LAST_WELL_KNOWN_NAME + 1 /\ gs.names[i].kind = "UTF8"} IN
    {UTF8Name(b) : b \in RefUtf8Pool}
        \cup {ConstantName(o) : o \in originals}
        \cup {UniqueName("Desugar", o, 1) : o \in originals}

\* the NameRefs of a tree of gs: none, one, or two in id order
RefTrees(gs) ==
    {<<>>} \cup {<<NameRef(gs, i)>> : i \in 1..Len(gs.names)}
           \cup {<<NameRef(gs, p[1]), NameRef(gs, p[2])>> :
                    p \in {q \in (1..Len(gs.names)) \X (1..Len(gs.names)) : q[1] < q[2]}}

RefsInit ==
    /\ gss = [g \in 0..(MaxStates - 1) |->
                 IF g = 0 THEN [NewGs(1) EXCEPT !.nameTableFrozen = FALSE] ELSE NoGs]
    /\ debug_mode = TRUE
    /\ halted = FALSE
    /\ call = [op |-> "none"]
    /\ opts = <<>> /\ kvstore = <<>> /\ fileq = <<>> /\ resultq = <<>>
    /\ wk = <<>> /\ co = 0 /\ errorQueue = {} /\ hist = <<>>

\* the variables the ownership specification leaves alone
refsUnchanged == <<debug_mode, halted, opts, kvstore, fileq, resultq, wk, errorQueue, hist>>

REnterName ==
    \E g \in Members :
        \E nm \in RefNamePool(gss[g]) :
            /\ LookupName(gss[g].names, nm) = 0
            /\ Len(gss[g].names) < MaxRefNames
            /\ gss' = [gss EXCEPT ![g] = EnterName(gss[g], nm, "abort").gs]
            /\ call' = [op |-> "enter", gs |-> g]
            /\ co < MaxRefSteps /\ co' = co + 1
            /\ UNCHANGED refsUnchanged

RDeepCopy ==
    \E g \in Members :
        \E slot \in {MinOf((DOMAIN gss \ Members) \cup {MaxStates})} :
            /\ slot < MaxStates
            /\ gss' = [gss EXCEPT ![slot] = GsDeepCopy(gss[g], slot + 1)]
            /\ call' = [op |-> "deepCopy", gs |-> slot]
            /\ co < MaxRefSteps /\ co' = co + 1
            /\ UNCHANGED refsUnchanged

\* enforceCorrectGlobalState on a NameRef of g1, with g2
RCheck ==
    \E g1 \in Members, g2 \in Members :
        \E id \in 1..Len(gss[g1].names) :
            /\ g1 # g2
            /\ call' = [op |-> "check", from |-> g1, to |-> g2, id |-> id,
                        ref |-> NameRef(gss[g1], id),
                        accepted |-> check(NameRefDebugCheck(gss[g1], id), gss[g2], id)]
            /\ UNCHANGED <<gss, co, refsUnchanged>>

\* a GlobalSubstitution from one member to another, applied to the
\* NameRefs of a tree of `from`, and applied again to what it returned
RSubstitute ==
    \E from \in Members, to \in Members :
        /\ from # to
        /\ co < MaxRefSteps
        /\ \E subst \in {GlobalSubstitution(gss[from], gss[to], gss[from])} :
              /\ Len(subst.to.names) <= MaxRefNames + 1
              /\ \E tree \in RefTrees(gss[from]) :
                    \E first \in {substituteRefs(subst, tree)} :
                        /\ gss' = [gss EXCEPT ![to] = subst.to]
                        /\ call' = [op |-> "substitute", from |-> from, to |-> to,
                                    before |-> gss[to], map |-> subst.nameSubstitution,
                                    tree |-> tree, first |-> first,
                                    second |-> substituteRefs(subst, first.refs)]
                        /\ co' = co + 1
                        /\ UNCHANGED refsUnchanged

RefsNext ==
    \/ REnterName
    \/ RDeepCopy
    \/ RCheck
    \/ RSubstitute

SpecRefs == RefsInit /\ [][RefsNext]_vars

(***************************************************************************)
(* Properties of the ownership check.                                      *)
(***************************************************************************)
\* a global state and the ancestors its history records, each with the
\* first id it does not vouch for: a state vouches for all its names
Lineage(gs) ==
    {gs.deepCloneHistory[k] : k \in DOMAIN gs.deepCloneHistory}
        \cup {[globalStateId |-> gs.globalStateId,
               lastNameKnownByParentGlobalState |-> Len(gs.names) + 1]}

\* the id is below lastNameKnownByParent of a common ancestor of the two
\* states, a state counting among its own ancestors
KnownByCommonAncestor(g1, g2, id) ==
    \E a \in Lineage(g1), b \in Lineage(g2) :
        /\ a.globalStateId = b.globalStateId
        /\ id < a.lastNameKnownByParentGlobalState
        /\ id < b.lastNameKnownByParentGlobalState

\* C18: the ownership check accepts a NameRef created in global state G1
\* for use with a different global state G2 exactly when its id is below
\* lastNameKnownByParent of a common ancestor of G1 and G2 in their
\* deep-clone histories, G1 and G2 counting among their own ancestors.
C18_AcceptedIffKnownByCommonAncestor ==
    (call.op = "check" /\ call.from # call.to) =>
        (call.accepted <=> KnownByCommonAncestor(gss[call.from], gss[call.to], call.id))

\* a NameRef of one copy was accepted by its sibling, the name being known
\* to their parent at both forks, and in another state one was rejected
C18_Witness ==
    /\ call.op = "check" /\ call.from # call.to
    /\ call.accepted
    /\ call.id > LAST_WELL_KNOWN_NAME
    /\ gss[call.from].deepCloneHistory # <<>> /\ gss[call.to].deepCloneHistory # <<>>
    /\ call.ref.globalStateId \notin {gss[call.from].globalStateId, gss[call.to].globalStateId}

\* a NameRef was rejected by a copy forked from the same parent before the
\* parent knew the name
C18_WitnessRejected ==
    /\ call.op = "check" /\ ~call.accepted
    /\ \E k \in DOMAIN gss[call.to].deepCloneHistory :
          gss[call.to].deepCloneHistory[k].globalStateId = call.ref.globalStateId

(***************************************************************************)
(* Properties of the GlobalSubstitution.                                   *)
(***************************************************************************)
\* the id is below lastNameKnownByParent of an ancestor both histories record
BelowCommonRecord(from, to, id) ==
    \E k \in DOMAIN from.deepCloneHistory, l \in DOMAIN to.deepCloneHistory :
        /\ from.deepCloneHistory[k].globalStateId = to.deepCloneHistory[l].globalStateId
        /\ id < from.deepCloneHistory[k].lastNameKnownByParentGlobalState
        /\ id < to.deepCloneHistory[l].lastNameKnownByParentGlobalState

\* name nm of `from` is the name at id toId of `to`, its original taken
\* through the map
ReEntered(nm, toNm, map) ==
    /\ toNm.kind = nm.kind
    /\ nm.kind = "UTF8" => toNm.utf8 = nm.utf8
    /\ nm.kind = "UNIQUE" =>
          /\ toNm.uniqueNameKind = nm.uniqueNameKind /\ toNm.num = nm.num
          /\ toNm.original = map[nm.original]
    /\ nm.kind = "CONSTANT" => toNm.original = map[nm.original]

\* C19: the map of a GlobalSubstitution has an entry for every name of
\* `from`; a name below lastNameKnownByParent of a common ancestor maps to
\* itself; every name maps to the id it has once entered into `to`, UTF8 by
\* its bytes, UNIQUE by (kind, sub(original), num), CONSTANT by
\* sub(original), its original having a smaller id; `to` keeps its names,
\* and the names it gains are entered in the id order of `from`.
C19_SubstitutionReEntersInOrder ==
    call.op = "substitute" =>
        LET from == gss[call.from]
            to == gss[call.to]
            map == call.map
            old == Len(call.before.names) IN
        /\ Len(map) = Len(from.names)
        /\ SubSeq(to.names, 1, old) = call.before.names
        /\ \A i \in 1..Len(from.names) :
              /\ BelowCommonRecord(from, call.before, i) => map[i] = i
              /\ map[i] \in 1..Len(to.names)
              /\ from.names[i].kind # "UTF8" => from.names[i].original < i
              /\ ReEntered(from.names[i], to.names[map[i]], map)
        /\ \A i, j \in 1..Len(from.names) :
              (i < j /\ map[i] > old /\ map[j] > old) => map[i] < map[j]
        /\ \A n \in (old + 1)..Len(to.names) : \E i \in 1..Len(from.names) : map[i] = n

\* a substitution between two copies of one parent mapped a name the
\* parent knew to itself and a constant to another id, the original of the
\* constant moving as well
C19_Witness ==
    /\ call.op = "substitute"
    /\ \E i \in 1..Len(call.map) :
          BelowCommonRecord(gss[call.from], call.before, i) /\ call.map[i] = i
    /\ \E i \in 1..Len(call.map) :
          /\ gss[call.from].names[i].kind = "CONSTANT"
          /\ call.map[i] # i
          /\ call.map[gss[call.from].names[i].original] # gss[call.from].names[i].original

\* the NameRefs of the tree that `to` owns once substituted: their id is
\* not below lastNameKnownByParent of any record of to's history
OwnedByTo(refs, to) == {k \in DOMAIN refs : refs[k].globalStateId = to.globalStateId}

\* C20: in a debug build, applying a GlobalSubstitution again to the tree
\* it returned triggers 'substituting a name twice' exactly when the tree
\* holds a NameRef that `to` owns, one whose id no ancestor of `to` knew
\* at the fork; a tree with no NameRef, or with NameRefs of names an
\* ancestor of `to` knew, goes through the substitution again in silence.
C20_SecondSubstitutionCaughtOnOwnedNames ==
    (call.op = "substitute" /\ ~call.first.violation) =>
        /\ call.second.violation <=> OwnedByTo(call.first.refs, gss[call.to]) # {}
        /\ \A k \in DOMAIN call.first.refs :
              k \in OwnedByTo(call.first.refs, gss[call.to])
                  <=> \A l \in DOMAIN gss[call.to].deepCloneHistory :
                         call.first.refs[k].id
                             >= gss[call.to].deepCloneHistory[l].lastNameKnownByParentGlobalState

\* C20 as stated: the second application of the substitution to the tree
\* triggers the violation, whatever the tree.
C20_SecondSubstitutionAlwaysCaught ==
    (call.op = "substitute" /\ ~call.first.violation) => call.second.violation

\* a tree with a name the worker's copy entered was substituted into its
\* sibling, and the second substitution was caught
C20_Witness ==
    /\ call.op = "substitute" /\ ~call.first.violation
    /\ call.second.violation
    /\ gss[call.to].deepCloneHistory # <<>>
    /\ Len(call.tree) = 2

\* a tree of names the common parent knew went through twice in silence
C20_WitnessSilent ==
    /\ call.op = "substitute" /\ ~call.first.violation
    /\ ~call.second.violation
    /\ call.tree # <<>>

(***************************************************************************)
(* Properties of incrementalResolve                                        *)
(***************************************************************************)
\* C30: incrementalResolve returns one parsed file for each file it was
\* given, each holding a tree, the empty tree for a file whose naming
\* failed: after a call the resolver did not raise in, no returned parsed
\* file holds a null tree.
C30_FailedFileHoldsTree ==
    (call.op = "incrementalResolve" /\ co.pc = "resolved" /\ co.returned # <<>>) =>
        \A i \in DOMAIN co.returned : co.returned[i].tree.kind # "nullptr"


(***************************************************************************)
(* The namer.  The symbol table of the global state (core/GlobalState,     *)
(* core/Symbols) holds symbols that are records; a SymbolRef is an index.  *)
(* A symbol is found in its owner by its nm.                             *)
(***************************************************************************)
\* the identifiers of the sources the namer is run on, entered in the name
\* table by the parser and the desugarer
Idents == <<"Object", "A", "Foo", "M", "FOO", "X", "Enumerable", "bar", "foo", "x", "y", "k",
            "j", "arg", "<blk>", "<static-init>">>

\* the identifiers that are constants
ConstantIdents == {"Object", "A", "Foo", "M", "FOO", "X", "Enumerable"}

RECURSIVE EnterIdents(_, _)
EnterIdents(gs, i) ==
    IF i > Len(Idents) THEN gs
    ELSE Bind(enterNameUTF8(gs, Idents[i], "abort"),
              LAMBDA u : Bind(IF Idents[i] \in ConstantIdents
                              THEN enterNameConstant(u.gs, u.ref, "abort").gs
                              ELSE u.gs,
                              LAMBDA c : EnterIdents(c, i + 1)))

\* Symbols::root(), Symbols::Object(), Symbols::todo()
RootSym == 1

ObjectSym == 2

TodoSym == 3

\* core::Loc: a file and a position in it
Loc(file, pos) == [file |-> file, pos |-> pos]

LocNone == Loc(0, 0)

\* a new symbol of a kind, with its definition location, owner and name
NewSymbol(kind, loc, owner, nm) ==
    [kind |-> kind, owner |-> owner, name |-> nm,
     locs |-> IF loc = LocNone THEN <<>> ELSE <<loc>>,
     flags |-> {}, moduleKind |-> "unset", singleton |-> 0, attached |-> 0, superClass |-> 0,
     arguments |-> <<>>, variance |-> "-", aliasOf |-> 0]

\* the names of the model: the name table after the parser entered the
\* identifiers
NamerNames == EnterIdents([NewGs(1) EXCEPT !.nameTableFrozen = FALSE], 1).names

\* the name of an identifier
U(s) == LookupName(NamerNames, UTF8Name(s))

\* the name of a constant
K(s) == LookupName(NamerNames, ConstantName(U(s)))

\* the files of the model: a.rb, b.rb and c.rbi
NamerFiles == 3

\* the global state after indexing: the names of the sources and the
\* symbols of the payload, root, Object, todo and the stub of an intrinsic
\* method of Object
NamerGs ==
    [NewGs(1) EXCEPT !.names = NamerNames,
                     !.files = [f \in 1..NamerFiles |-> [isRBI |-> f > 2]]] @@
    [symbols |-> << NewSymbol("class", LocNone, 0, 0),
                    NewSymbol("class", LocNone, RootSym, K("Object")),
                    NewSymbol("class", LocNone, RootSym, 0),
                    [NewSymbol("method", LocNone, ObjectSym, U("foo"))
                        EXCEPT !.flags = {"intrinsic"},
                               !.arguments = <<[name |-> U("<blk>"), loc |-> LocNone,
                                                isKeyword |-> FALSE, isBlock |-> TRUE,
                                                isRepeated |-> FALSE, isDefault |-> FALSE]>>] >>]

\* Symbol::isClass
isClass(gs, sym) == gs.symbols[sym].kind = "class"

\* Symbol::loc: the last definition location
SymLoc(gs, sym) ==
    IF gs.symbols[sym].locs = <<>> THEN LocNone
    ELSE gs.symbols[sym].locs[Len(gs.symbols[sym].locs)]

\* Symbol::addLoc: one location for each file
addLoc(gs, sym, loc) ==
    LET locs == gs.symbols[sym].locs
        same == {i \in DOMAIN locs : locs[i].file = loc.file} IN
    IF same # {}
    THEN [gs EXCEPT !.symbols[sym].locs = [i \in DOMAIN locs |-> IF i \in same THEN loc ELSE locs[i]]]
    ELSE [gs EXCEPT !.symbols[sym].locs = Append(@, loc)]

\* Symbol::findMember: the symbol of the owner that carries the name
findMember(gs, owner, nm) ==
    LET found == {s \in DOMAIN gs.symbols :
                     /\ s # owner /\ gs.symbols[s].owner = owner /\ gs.symbols[s].name = nm} IN
    IF found = {} THEN 0 ELSE MinOf(found)

\* Symbol::enclosingClass: the symbol, or the first class among its owners
RECURSIVE enclosingClass(_, _)
enclosingClass(gs, sym) ==
    IF isClass(gs, sym) THEN sym ELSE enclosingClass(gs, gs.symbols[sym].owner)

\* GlobalState::enterSymbol: the symbol of that name in the owner if there
\* is one (it must be of the kind asked for), else a new symbol; the symbol
\* table must not be frozen to grow
enterSymbol(gs, kind, loc, owner, nm) ==
    LET found == findMember(gs, owner, nm) IN
    IF found # 0
    THEN [gs |-> gs, sym |-> found, violation |-> gs.symbols[found].kind # kind]
    ELSE [gs |-> [gs EXCEPT !.symbols = Append(@, NewSymbol(kind, loc, owner, nm))],
          sym |-> Len(gs.symbols) + 1, violation |-> gs.symbolTableFrozen]

enterClassSymbol(gs, loc, owner, nm) == enterSymbol(gs, "class", loc, owner, nm)

enterMethodSymbol(gs, loc, owner, nm) == enterSymbol(gs, "method", loc, owner, nm)

enterStaticFieldSymbol(gs, loc, owner, nm) == enterSymbol(gs, "static_field", loc, owner, nm)

\* GlobalState::enterTypeMember: the type member of that name, or a new one
\* with the variance
enterTypeMember(gs, loc, owner, nm, variance) ==
    Bind(enterSymbol(gs, "type_member", loc, owner, nm),
         LAMBDA r : IF r.sym > Len(gs.symbols)
                    THEN [r EXCEPT !.gs.symbols[r.sym].variance = variance]
                    ELSE r)

\* the singleton class of a class entered under its UNIQUE name
NewSingleton(gs, sym, fresh) ==
    Bind(enterClassSymbol(fresh.gs, SymLoc(gs, sym), sym, fresh.ref),
         LAMBDA r : [gs |-> [r.gs EXCEPT !.symbols[sym].singleton = r.sym,
                                         !.symbols[r.sym].attached = sym],
                     sym |-> r.sym, violation |-> fresh.violation \/ r.violation])

\* a class that stands for its own singleton class
singletonClassSelf(gs, sym) == [gs |-> gs, sym |-> sym, violation |-> FALSE]

\* Symbol::singletonClass: the singleton class of a class, created on first
\* access under a UNIQUE name of kind Singleton, owned by the class
singletonClass(gs, sym) ==
    IF gs.symbols[sym].singleton # 0
    THEN [gs |-> gs, sym |-> gs.symbols[sym].singleton, violation |-> FALSE]
    ELSE Bind(freshNameUnique(gs, "Singleton", gs.symbols[sym].name, 1, "abort"),
              LAMBDA fresh : NewSingleton(gs, sym, fresh))

\* the first number from n on for which no member of the owner carries the
\* MangleRename name of the original
RECURSIVE MangledName(_, _, _, _)
MangledName(gs, owner, origName, n) ==
    Bind(freshNameUnique(gs, "MangleRename", origName, n, "abort"),
         LAMBDA fresh : IF findMember(fresh.gs, owner, fresh.ref) = 0 THEN fresh
                        ELSE MangledName(fresh.gs, owner, origName, n + 1))

\* a renaming that always takes the first MangleRename name over the
\* original name
mangleRenameFirst(gs, what, origName) ==
    Bind(freshNameUnique(gs, "MangleRename", origName, 1, "abort"),
         LAMBDA fresh : [gs |-> [fresh.gs EXCEPT !.symbols[what].name = fresh.ref],
                         violation |-> fresh.violation
                                          \/ findMember(gs, gs.symbols[what].owner, origName)
                                                 # what])

\* GlobalState::mangleRenameSymbol: the symbol, found in its owner under the
\* original name, takes a UNIQUE name of kind MangleRename over that name,
\* numbered from 1 until no member of the owner carries it
mangleRenameSymbol(gs, what, origName) ==
    Bind(MangledName(gs, gs.symbols[what].owner, origName, 1),
         LAMBDA fresh : [gs |-> [fresh.gs EXCEPT !.symbols[what].name = fresh.ref],
                         violation |-> fresh.violation
                                          \/ findMember(gs, gs.symbols[what].owner, origName)
                                                 # what])

(***************************************************************************)
(* The desugared trees the namer walks (ast/Trees.h), as records of one    *)
(* shape: a node kind, its position in the file and the fields of the      *)
(* kinds.                                                                  *)
(***************************************************************************)
Tree(tag, pos) ==
    [tag |-> tag, pos |-> pos, kind |-> "", fun |-> "", name |-> 0, path |-> <<>>,
     args |-> <<>>, rhs |-> <<>>, symbol |-> 0, ancestors |-> <<>>,
     singletonAncestors |-> <<>>, block |-> FALSE]

\* ast::MK::EmptyTree
MKEmptyTree == Tree("EmptyTree", 0)

\* ast::MK::Self
MKSelf(pos) == Tree("Self", pos)

\* an UnresolvedConstantLit chain c1::...::cn over an empty scope, or over
\* a scope that is an expression (base "dynamic")
MKConstant(base, path, pos) == [Tree("UnresolvedConstantLit", pos) EXCEPT !.kind = base, !.path = path]

\* a ConstantLit of a resolved symbol
MKConstantLit(symbol, pos) == [Tree("ConstantLit", pos) EXCEPT !.symbol = symbol]

\* a symbol literal, an integer literal
MKSymbol(s, pos) == [Tree("Literal", pos) EXCEPT !.kind = "symbol", !.fun = s]

MKInt(pos) == [Tree("Literal", pos) EXCEPT !.kind = "int"]

\* a hash literal with one key
MKHash(key, pos) == [Tree("Hash", pos) EXCEPT !.fun = key]

\* a Send of fun to a receiver with arguments
MKSend(recv, fun, args, pos) == [Tree("Send", pos) EXCEPT !.kind = recv, !.fun = fun, !.args = args]

\* a ClassDef as the desugarer builds it: the symbol is todo, and a class
\* with no superclass has the todo constant as its first ancestor
MKClassDef(kind, nameNode, rhs, pos) ==
    [Tree("ClassDef", pos) EXCEPT !.kind = kind, !.args = <<nameNode>>, !.rhs = rhs,
                                  !.symbol = TodoSym,
                                  !.ancestors = IF kind = "Class"
                                                THEN <<MKConstantLit(TodoSym, pos)>>
                                                ELSE <<>>]

\* the ClassDef of root the desugarer wraps a file in
MKRoot(rhs) ==
    [Tree("ClassDef", 0) EXCEPT !.kind = "Class", !.args = <<MKEmptyTree>>, !.rhs = rhs,
                                !.symbol = RootSym]

\* ast::ParsedArg
ParsedArg(local, flag, pos) ==
    [local |-> local, keyword |-> flag = "keyword", block |-> flag = "block",
     repeated |-> flag = "repeated", default_ |-> flag = "default", shadow |-> FALSE,
     pos |-> pos]

\* a MethodDef; the desugarer adds the block argument to every method
MKMethodDef(nm, parsedArgs, rhs, pos) ==
    [Tree("MethodDef", pos) EXCEPT !.name = nm, !.rhs = rhs,
                                   !.args = Append(parsedArgs, ParsedArg(U("<blk>"), "block", pos))]

\* an Assign of a value to a left-hand side
MKAssign(lhs, value, pos) == [Tree("Assign", pos) EXCEPT !.args = <<lhs, value>>]

(***************************************************************************)
(* The NameInserter (namer.cc): its state is the global state it changes,  *)
(* the diagnostics it emitted, the NamerCtx and the scope stack.           *)
(***************************************************************************)
\* a NameInserter over a global state and a NamerCtx; the constructor
\* enters the first scope
NameInserter(gs, namerCtx) ==
    [gs |-> gs, diags |-> <<>>, classBehaviorLocs |-> namerCtx,
     scopeStack |-> <<[moduleFunctionActive |-> FALSE]>>, violation |-> FALSE,
     renamed |-> <<>>, entered |-> <<>>, depth |-> <<1>>]

\* ctx.state.beginError(loc, what): the diagnostic is emitted
Diag(ni, what, loc) == [ni EXCEPT !.diags = Append(@, [what |-> what, loc |-> loc])]

\* the state after a call on the global state
Into(ni, r) == [ni EXCEPT !.gs = r.gs, !.violation = @ \/ r.violation]

\* enterScope, exitScope; scopeStack.back() of an empty stack is undefined
enterScope(ni) ==
    [ni EXCEPT !.scopeStack = Append(@, [moduleFunctionActive |-> FALSE]),
               !.depth = Append(@, Len(ni.scopeStack) + 1)]

\* an exitScope that pops the frame below as well
exitScopeBoth(ni) ==
    IF ni.scopeStack = <<>> THEN [ni EXCEPT !.violation = TRUE]
    ELSE [ni EXCEPT !.scopeStack = IF Len(@) >= 2 THEN SubSeq(@, 1, Len(@) - 2) ELSE <<>>,
                    !.depth = Append(@, IF Len(ni.scopeStack) >= 2
                                        THEN Len(ni.scopeStack) - 2 ELSE 0)]

exitScope(ni) ==
    IF ni.scopeStack = <<>> THEN [ni EXCEPT !.violation = TRUE]
    ELSE [ni EXCEPT !.scopeStack = SubSeq(@, 1, Len(@) - 1),
                    !.depth = Append(@, Len(ni.scopeStack) - 1)]

\* a class symbol the namer entered or defined
EnteredClass(ni, sym) == [ni EXCEPT !.entered = Append(@, sym)]

\* ctx.state.mangleRenameSymbol(what, origName) in the namer
Mangle(ni, what, origName) ==
    Bind(mangleRenameSymbol(ni.gs, what, origName),
         LAMBDA r : [ni EXCEPT !.gs = r.gs, !.violation = @ \/ r.violation,
                               !.renamed = Append(@, [sym |-> what, origName |-> origName,
                                                      owner |-> ni.gs.symbols[what].owner,
                                                      loc |-> SymLoc(ni.gs, what)])])

\* the class of a segment that is not found is entered in the scope, with
\* its singleton class
EnterSegment(ni, newOwner, cnst, loc) ==
    Bind(enterClassSymbol(ni.gs, loc, newOwner, cnst),
         LAMBDA e : Bind(singletonClass(e.gs, e.sym),
                         LAMBDA s : [ni |-> EnteredClass([ni EXCEPT !.gs = s.gs,
                                                                    !.violation = @ \/ e.violation
                                                                                    \/ s.violation],
                                                         e.sym),
                                     sym |-> e.sym, node |-> "ConstantLit"]))

\* the segment of a chain in the scope the segments before it name
squashSegment(scope, owner, cnst, loc) ==
    IF findMember(scope.ni.gs, scope.sym, cnst) # 0
    THEN [ni |-> scope.ni, sym |-> findMember(scope.ni.gs, scope.sym, cnst),
          node |-> "ConstantLit"]
    ELSE IF ~isClass(scope.ni.gs, scope.sym)
    THEN [ni |-> Diag(scope.ni, "InvalidClassOwner", loc), sym |-> owner, node |-> "EmptyTree"]
    ELSE EnterSegment(scope.ni, scope.sym, cnst, loc)

\* squashNames over the first n segments of an UnresolvedConstantLit chain
RECURSIVE squashSegments(_, _, _, _, _)
squashSegments(ni, owner, node, n, file) ==
    IF n = 0
    THEN [ni |-> IF node.kind = "dynamic"
                 THEN Diag(ni, "DynamicConstant", Loc(file, node.pos)) ELSE ni,
          sym |-> owner, node |-> "EmptyTree"]
    ELSE Bind(squashSegments(ni, owner, node, n - 1, file),
              LAMBDA scope : squashSegment(scope, owner, node.path[n], Loc(file, node.pos)))

\* squashNames: the symbol a constant scope names under the owner
squashNames(ni, owner, node, file) ==
    IF node.tag = "UnresolvedConstantLit"
    THEN squashSegments(ni, owner, node, Len(node.path), file)
    ELSE IF node.tag = "ConstantLit" THEN [ni |-> ni, sym |-> node.symbol, node |-> "ConstantLit"]
    ELSE IF node.tag \in {"EmptyTree", "Self"} THEN [ni |-> ni, sym |-> owner, node |-> "EmptyTree"]
    ELSE [ni |-> Diag(ni, "DynamicConstant", Loc(file, node.pos)), sym |-> owner,
          node |-> "EmptyTree"]

\* a check that takes every expression for a constant
isValidAncestorAlways(exp) == TRUE

\* isValidAncestor
isValidAncestor(exp) ==
    \/ exp.tag \in {"EmptyTree", "Self", "ConstantLit"}
    \/ exp.tag = "UnresolvedConstantLit" /\ exp.kind # "dynamic"

\* a loop over the arguments from the first to the last
RECURSIVE addAncestorArgsForward(_, _, _, _)
addAncestorArgsForward(r, args, i, file) ==
    IF i = 0 THEN r
    ELSE IF args[Len(args) - i + 1].tag = "EmptyTree"
    THEN addAncestorArgsForward(r, args, i - 1, file)
    ELSE IF args[Len(args) - i + 1].tag = "Self" \/ isValidAncestor(args[Len(args) - i + 1])
    THEN Bind([r EXCEPT !.dest = Append(@, args[Len(args) - i + 1])],
              LAMBDA next : addAncestorArgsForward(next, args, i - 1, file))
    ELSE Bind([r EXCEPT !.ni = Diag(@, "AncestorNotConstant",
                                    Loc(file, args[Len(args) - i + 1].pos))],
              LAMBDA next : addAncestorArgsForward(next, args, i - 1, file))

\* the arguments of an include or extend from the last to the first: a
\* valid one is appended to dest, another one is reported
RECURSIVE addAncestorArgs(_, _, _, _)
addAncestorArgs(r, args, i, file) ==
    IF i = 0 THEN r
    ELSE IF args[i].tag = "EmptyTree" THEN addAncestorArgs(r, args, i - 1, file)
    ELSE IF args[i].tag = "Self" \/ isValidAncestor(args[i])
    THEN Bind([r EXCEPT !.dest = Append(@, args[i])],
              LAMBDA next : addAncestorArgs(next, args, i - 1, file))
    ELSE Bind([r EXCEPT !.ni = Diag(@, "AncestorNotConstant", Loc(file, args[i].pos))],
              LAMBDA next : addAncestorArgs(next, args, i - 1, file))

\* addAncestor: whether the node was an include or an extend on self, and
\* the class with the ancestors appended
addAncestor(ni, klass, node, file) ==
    IF node.tag # "Send" \/ node.fun \notin {"include", "extend"} \/ node.kind # "Self"
    THEN [ni |-> ni, klass |-> klass, handled |-> FALSE]
    ELSE IF node.args = <<>>
    THEN [ni |-> Diag(ni, "IncludeMutipleParam", Loc(file, node.pos)), klass |-> klass,
          handled |-> FALSE]
    ELSE IF node.block
    THEN [ni |-> Diag(ni, "IncludePassedBlock", Loc(file, node.pos)), klass |-> klass,
          handled |-> FALSE]
    ELSE Bind(addAncestorArgs([ni |-> ni,
                               dest |-> IF node.fun = "include" THEN klass.ancestors
                                        ELSE klass.singletonAncestors],
                              node.args, Len(node.args), file),
              LAMBDA r : [ni |-> r.ni, handled |-> TRUE,
                          klass |-> IF node.fun = "include"
                                    THEN [klass EXCEPT !.ancestors = r.dest]
                                    ELSE [klass EXCEPT !.singletonAncestors = r.dest]])

\* Symbol::setClassFinal and the other setters of flags
setFlag(gs, sym, flag) == [gs EXCEPT !.symbols[sym].flags = @ \cup {flag}]

\* flags that are all set on the class and on its singleton class alike
declareFlagsOnBoth(gs, sym, singleton, fun) ==
    CASE fun = "final!" -> setFlag(setFlag(gs, sym, "final"), singleton, "final")
      [] fun = "abstract!" -> setFlag(setFlag(gs, sym, "abstract"), singleton, "abstract")
      [] fun = "interface!" ->
            setFlag(setFlag(setFlag(setFlag(gs, sym, "abstract"), singleton, "abstract"), sym,
                            "interface"), singleton, "interface")
      [] OTHER -> gs

\* the flags final!, abstract! and interface! set on a class and on its
\* singleton class: interface! makes both abstract and the class an
\* interface
declareFlags(gs, sym, singleton, fun) ==
    CASE fun = "final!" -> setFlag(setFlag(gs, sym, "final"), singleton, "final")
      [] fun = "abstract!" -> setFlag(setFlag(gs, sym, "abstract"), singleton, "abstract")
      [] fun = "interface!" ->
            setFlag(setFlag(setFlag(gs, sym, "abstract"), singleton, "abstract"), sym,
                    "interface")
      [] OTHER -> gs

\* the end of handleNamerDSL for a Send that is no include or extend
declare(ni, klass, line, file) ==
    IF line.fun \notin {"final!", "abstract!", "interface!"} THEN ni
    ELSE Bind(singletonClass(ni.gs, klass.symbol),
              LAMBDA s :
                 Bind([ni EXCEPT !.gs = declareFlags(s.gs, klass.symbol, s.sym, line.fun),
                                 !.violation = @ \/ s.violation],
                      LAMBDA n1 : IF line.fun = "interface!" /\ klass.kind = "Class"
                                  THEN Diag(n1, "InterfaceClass", Loc(file, line.pos))
                                  ELSE n1))

\* handleNamerDSL: an include or extend is taken out of the body; final!,
\* abstract! and interface! set flags and stay
handleNamerDSL(ni, klass, line, file) ==
    Bind(addAncestor(ni, klass, line, file),
         LAMBDA a : IF a.handled THEN [ni |-> a.ni, klass |-> a.klass, remove |-> TRUE]
                    ELSE IF line.tag # "Send" THEN [ni |-> a.ni, klass |-> klass, remove |-> FALSE]
                    ELSE [ni |-> declare(a.ni, klass, line, file), klass |-> klass,
                          remove |-> FALSE])

\* methodOwner: the enclosing class, Object for root
methodOwner(gs, owner) ==
    IF enclosingClass(gs, owner) = RootSym THEN ObjectSym ELSE enclosingClass(gs, owner)

\* ast::classDefinesBehavior: the body holds something else than class
\* definitions and empty trees
classDefinesBehavior(klass) ==
    \E i \in DOMAIN klass.rhs : klass.rhs[i].tag \notin {"ClassDef", "EmptyTree"}

\* File::isRBI
isRBI(gs, file) == gs.files[file].isRBI

\* a lookup in classBehaviorLocs
BehaviorLoc(ni, sym) ==
    LET found == {i \in DOMAIN ni.classBehaviorLocs : ni.classBehaviorLocs[i].sym = sym} IN
    IF found = {} THEN LocNone ELSE ni.classBehaviorLocs[MinOf(found)].loc

\* a tracking that takes every class definition for one of behaviour
trackEveryDefinition(ni, klass, file) ==
    IF klass.symbol = RootSym \/ isRBI(ni.gs, file) THEN ni
    ELSE IF BehaviorLoc(ni, klass.symbol) = LocNone
    THEN [ni EXCEPT !.classBehaviorLocs = Append(@, [sym |-> klass.symbol,
                                                     loc |-> Loc(file, klass.pos)])]
    ELSE IF BehaviorLoc(ni, klass.symbol).file # file
    THEN Diag(ni, "MultipleBehaviorDefs", Loc(file, klass.pos))
    ELSE ni

\* the end of preTransformClassDef: the first file that defines behaviour
\* of a class is remembered, a definition in another file is reported
trackBehavior(ni, klass, file) ==
    IF klass.symbol = RootSym \/ isRBI(ni.gs, file) \/ ~classDefinesBehavior(klass) THEN ni
    ELSE IF BehaviorLoc(ni, klass.symbol) = LocNone
    THEN [ni EXCEPT !.classBehaviorLocs = Append(@, [sym |-> klass.symbol,
                                                     loc |-> Loc(file, klass.pos)])]
    ELSE IF BehaviorLoc(ni, klass.symbol).file # file
    THEN Diag(ni, "MultipleBehaviorDefs", Loc(file, klass.pos))
    ELSE ni

\* the kind of a class symbol set by a definition
setIsModule(gs, sym, isModule) ==
    [gs EXCEPT !.symbols[sym].moduleKind = IF isModule THEN "module" ELSE "class"]

\* the symbol of a definition that is not a class is renamed out of the
\* way, and a class is entered under its name, with a fresh singleton class
redefineAsClass(ni, sym, klass, file) ==
    Bind(Mangle(Diag(ni, "ModuleKindRedefinition", Loc(file, klass.pos)), sym,
                ni.gs.symbols[sym].name),
         LAMBDA n2 :
            Bind(enterClassSymbol(n2.gs, Loc(file, klass.pos), ni.gs.symbols[sym].owner,
                                  ni.gs.symbols[sym].name),
                 LAMBDA e :
                    Bind(singletonClass(setIsModule(e.gs, e.sym, klass.kind = "Module"), e.sym),
                         LAMBDA s :
                            [ni |-> EnteredClass([n2 EXCEPT !.gs = s.gs,
                                                            !.violation =
                                                                \/ @ \/ e.violation \/ s.violation
                                                                \/ s.sym <= Len(e.gs.symbols)],
                                                 e.sym),
                             klass |-> [klass EXCEPT !.symbol = e.sym]])))

\* a definition of the other kind reported, and the kind set to it
defineKindLastWins(ni, sym, klass, file) ==
    [(IF /\ ni.gs.symbols[sym].moduleKind # "unset"
         /\ (klass.kind = "Module") # (ni.gs.symbols[sym].moduleKind = "module")
      THEN Diag(ni, "ModuleKindRedefinition", Loc(file, klass.pos))
      ELSE ni) EXCEPT !.gs = setIsModule(@, sym, klass.kind = "Module")]

\* the kind of the definition against the kind of the class symbol
defineKind(ni, sym, klass, file) ==
    IF /\ ni.gs.symbols[sym].moduleKind # "unset"
       /\ (klass.kind = "Module") # (ni.gs.symbols[sym].moduleKind = "module")
    THEN Diag(ni, "ModuleKindRedefinition", Loc(file, klass.pos))
    ELSE [ni EXCEPT !.gs = setIsModule(@, sym, klass.kind = "Module")]

\* the symbol of a ClassDef: the singleton class of the enclosing class for
\* class << self, the symbol its name is squashed to, or root
classSymbol(ni, owner, klass, file) ==
    IF klass.fun = "singleton"
    THEN Bind(singletonClass(ni.gs, enclosingClass(ni.gs, owner)),
              LAMBDA s : [ni |-> Into(ni, s), sym |-> s.sym, node |-> "singleton"])
    ELSE IF klass.symbol = TodoSym
    THEN squashNames(ni, enclosingClass(ni.gs, owner), klass.args[1], file)
    ELSE [ni |-> [ni EXCEPT !.violation = @ \/ klass.symbol # RootSym], sym |-> klass.symbol,
          node |-> "EmptyTree"]

\* the class symbol with its kind set
defineClass(sq, klass, file) ==
    IF sq.node = "singleton" THEN [ni |-> sq.ni, klass |-> [klass EXCEPT !.symbol = sq.sym]]
    ELSE IF ~isClass(sq.ni.gs, sq.sym) THEN redefineAsClass(sq.ni, sq.sym, klass, file)
    ELSE [ni |-> defineKind(sq.ni, sq.sym, klass, file),
          klass |-> [klass EXCEPT !.symbol = sq.sym]]

\* preTransformClassDef
preTransformClassDef(ni, owner, klass, file) ==
    Bind(classSymbol(ni, owner, klass, file),
         LAMBDA sq :
            Bind(defineClass(sq, klass, file),
                 LAMBDA r :
                    Bind(trackBehavior(r.ni, r.klass, file),
                         LAMBDA tracked : [ni |-> enterScope(tracked), klass |-> r.klass])))

\* shouldLeaveAncestorForIDE
shouldLeaveAncestorForIDE(anc) ==
    /\ anc.tag \notin {"EmptyTree", "Self"}
    /\ ~(anc.tag = "ConstantLit" /\ anc.symbol = TodoSym)

\* KeepForIDE of a copy of a node
KeepForIDE(node) == [Tree("KeepForIDE", node.pos) EXCEPT !.args = <<node>>]

\* the lines of a class body from the i-th on through handleNamerDSL, those
\* it handles taken out
RECURSIVE handleLines(_, _, _, _, _)
handleLines(r, lines, i, kept, file) ==
    IF i > Len(lines) THEN [ni |-> r.ni, klass |-> [r.klass EXCEPT !.rhs = kept]]
    ELSE Bind(handleNamerDSL(r.ni, r.klass, lines[i], file),
              LAMBDA h : handleLines(h, lines, i + 1,
                                     IF h.remove THEN kept ELSE Append(kept, lines[i]), file))

\* the loop of postTransformClassDef over the ancestors: one that is not a
\* constant is reported and emptied, the others are kept for the IDE
RECURSIVE checkAncestors(_, _, _)
checkAncestors(r, i, file) ==
    IF i > Len(r.klass.ancestors) THEN r
    ELSE IF ~isValidAncestor(r.klass.ancestors[i])
    THEN Bind([ni |-> Diag(r.ni, "AncestorNotConstant", Loc(file, r.klass.ancestors[i].pos)),
               klass |-> [r.klass EXCEPT !.ancestors[i] = MKEmptyTree]],
              LAMBDA next : checkAncestors(next, i + 1, file))
    ELSE IF shouldLeaveAncestorForIDE(r.klass.ancestors[i]) /\ (r.klass.kind = "Module" \/ i # 1)
    THEN Bind([r EXCEPT !.klass.rhs = Append(@, KeepForIDE(r.klass.ancestors[i]))],
              LAMBDA next : checkAncestors(next, i + 1, file))
    ELSE checkAncestors(r, i + 1, file)

\* the singleton ancestors kept for the IDE
keepSingletonAncestors(klass) ==
    [klass EXCEPT !.rhs = @ \o [i \in DOMAIN SelectSeq(klass.singletonAncestors,
                                                       shouldLeaveAncestorForIDE) |->
                                   KeepForIDE(SelectSeq(klass.singletonAncestors,
                                                        shouldLeaveAncestorForIDE)[i])]]

\* GlobalState::staticInitForClass, staticInitForFile: the static-initializer
\* method of a class, in its singleton class, and the one of a file, in the
\* singleton class of root
staticInitForClass(gs, klass, loc) ==
    Bind(singletonClass(gs, klass),
         LAMBDA s : Bind(enterMethodSymbol(s.gs, loc, s.sym, U("<static-init>")),
                         LAMBDA e : [gs |-> e.gs, violation |-> s.violation \/ e.violation]))

staticInitForFile(gs, loc) ==
    Bind(freshNameUnique(gs, "Namer", U("<static-init>"), loc.file, "abort"),
         LAMBDA fresh :
            Bind(singletonClass(fresh.gs, RootSym),
                 LAMBDA s :
                    Bind(enterMethodSymbol(s.gs, loc, s.sym, fresh.ref),
                         LAMBDA e : [gs |-> e.gs,
                                     violation |-> fresh.violation \/ s.violation
                                                      \/ e.violation])))

\* the start of postTransformClassDef: the scope is left, a class with no
\* superclass gets todo, the definition is located and the singleton class
\* is forced
locateClass(ni, klass, file) ==
    Bind(exitScope(ni),
         LAMBDA n0 :
            Bind(singletonClass(addLoc(IF klass.kind = "Class"
                                          /\ n0.gs.symbols[klass.symbol].superClass = 0
                                       THEN [n0.gs EXCEPT !.symbols[klass.symbol].superClass =
                                                              TodoSym]
                                       ELSE n0.gs,
                                       klass.symbol, Loc(file, klass.pos)),
                                klass.symbol),
                 LAMBDA s : EnteredClass(Into(n0, s), klass.symbol)))

\* the end of postTransformClassDef: the static initializer
staticInit(r, file) ==
    Bind(IF r.klass.symbol = RootSym THEN staticInitForFile(r.ni.gs, Loc(file, r.klass.pos))
         ELSE staticInitForClass(r.ni.gs, r.klass.symbol, Loc(file, r.klass.pos)),
         LAMBDA init : [ni |-> Into(r.ni, init), tree |-> keepSingletonAncestors(r.klass)])

\* postTransformClassDef
postTransformClassDef(ni, klass, file) ==
    Bind(locateClass(ni, klass, file),
         LAMBDA n2 :
            Bind(handleLines([ni |-> n2, klass |-> klass], klass.rhs, 1, <<>>, file),
                 LAMBDA lines :
                    Bind(checkAncestors(lines, 1, file),
                         LAMBDA ancs : staticInit(ancs, file))))

\* Symbol::dealias of a method
dealias(gs, sym) == IF gs.symbols[sym].aliasOf # 0 THEN gs.symbols[sym].aliasOf ELSE sym

\* isIntrinsic: a stub that holds an intrinsic and has no result type yet
isIntrinsic(gs, sym) == "intrinsic" \in gs.symbols[sym].flags

\* whether an argument of the symbol and a parsed argument differ in shape
argMismatch(symArg, methodArg) ==
    \/ symArg.isKeyword # methodArg.keyword
    \/ symArg.isBlock # methodArg.block
    \/ symArg.isRepeated # methodArg.repeated
    \/ symArg.isKeyword /\ symArg.name # methodArg.local

\* a comparison that looks at the number of arguments only
paramsMatchByArity(ni, sym, loc, parsedArgs) ==
    IF Len(ni.gs.symbols[dealias(ni.gs, sym)].arguments) # Len(parsedArgs)
    THEN [ni |-> Diag(ni, "RedefinitionOfMethod", loc), match |-> FALSE]
    ELSE [ni |-> ni, match |-> TRUE]

\* paramsMatch: the arguments of a definition against those of the symbol,
\* by number, keyword, block and repeated flags and keyword names; the
\* first difference is reported and ends the comparison
paramsMatch(ni, sym, loc, parsedArgs) ==
    IF \/ Len(ni.gs.symbols[dealias(ni.gs, sym)].arguments) # Len(parsedArgs)
       \/ \E i \in DOMAIN parsedArgs :
             argMismatch(ni.gs.symbols[dealias(ni.gs, sym)].arguments[i], parsedArgs[i])
    THEN [ni |-> Diag(ni, "RedefinitionOfMethod", loc), match |-> FALSE]
    ELSE [ni |-> ni, match |-> TRUE]

\* GlobalState::enterMethodArgumentSymbol: the argument of that name, or a
\* new one at the end of the arguments of the method
enterMethodArgumentSymbol(gs, loc, owner, nm) ==
    LET found == {i \in DOMAIN gs.symbols[owner].arguments :
                     gs.symbols[owner].arguments[i].name = nm} IN
    IF found # {} THEN [gs |-> gs, pos |-> MinOf(found)]
    ELSE [gs |-> [gs EXCEPT !.symbols[owner].arguments =
                                Append(@, [name |-> nm, loc |-> loc, isKeyword |-> FALSE,
                                           isBlock |-> FALSE, isRepeated |-> FALSE,
                                           isDefault |-> FALSE])],
          pos |-> Len(gs.symbols[owner].arguments) + 1]

\* the name of a new argument: the local of a keyword, blkArg, or a UNIQUE
\* name of kind PositionalArg for the position
argName(gs, pos, parsedArg) ==
    IF parsedArg.keyword THEN [gs |-> gs, ref |-> parsedArg.local, violation |-> FALSE]
    ELSE IF parsedArg.block THEN [gs |-> gs, ref |-> U("<blk>"), violation |-> FALSE]
    ELSE freshNameUnique(gs, "PositionalArg", U("arg"), pos + 1, "abort")

\* the flags of the parsed argument set on the argument entered
argFlags(ni, method, e, parsedArg, violation) ==
    [ni EXCEPT !.gs = [e.gs EXCEPT !.symbols[method].arguments[e.pos] =
                          [@ EXCEPT !.isDefault = @ \/ parsedArg.default_,
                                    !.isKeyword = @ \/ parsedArg.keyword,
                                    !.isBlock = @ \/ parsedArg.block,
                                    !.isRepeated = @ \/ parsedArg.repeated]],
               !.violation = @ \/ violation]

\* arg2Symbol for the argument at pos (from 0): an argument the method has
\* at that position is kept and only located anew
arg2Symbol(ni, method, pos, parsedArg, file) ==
    IF pos < Len(ni.gs.symbols[method].arguments)
    THEN [ni EXCEPT !.gs.symbols[method].arguments[pos + 1].loc = Loc(file, parsedArg.pos)]
    ELSE Bind(argName(ni.gs, pos, parsedArg),
              LAMBDA fresh :
                 Bind(enterMethodArgumentSymbol(fresh.gs, Loc(file, parsedArg.pos), method,
                                                fresh.ref),
                      LAMBDA e : argFlags(ni, method, e, parsedArg, fresh.violation)))

\* the loop of fillInArgs from the argument at i (from 1) on; an intrinsic
\* with its one block argument takes it back before the block argument
RECURSIVE fillInArgsFrom(_, _, _, _, _, _)
fillInArgsFrom(ni, method, parsedArgs, i, swapped, file) ==
    IF i > Len(parsedArgs) THEN ni
    ELSE IF parsedArgs[i].shadow THEN fillInArgsFrom(ni, method, parsedArgs, i + 1, swapped, file)
    ELSE Bind(arg2Symbol(IF swapped # <<>> /\ parsedArgs[i].block
                         THEN [ni EXCEPT !.gs.symbols[method].arguments = @ \o swapped]
                         ELSE ni,
                         method, i - 1, parsedArgs[i], file),
              LAMBDA n2 :
                 Bind([n2 EXCEPT !.violation = @ \/ i > Len(n2.gs.symbols[method].arguments)],
                      LAMBDA n3 : fillInArgsFrom(n3, method, parsedArgs, i + 1, swapped, file)))

\* fillInArgs
fillInArgs(ni, method, parsedArgs, file) ==
    IF isIntrinsic(ni.gs, method) /\ Len(ni.gs.symbols[method].arguments) = 1
    THEN Bind([ni EXCEPT !.gs.symbols[method].arguments = <<>>,
                         !.violation = @ \/ ~ni.gs.symbols[method].arguments[1].isBlock],
              LAMBDA n1 : fillInArgsFrom(n1, method, parsedArgs, 1,
                                         ni.gs.symbols[method].arguments, file))
    ELSE fillInArgsFrom(ni, method, parsedArgs, 1, <<>>, file)

\* the owner of a method definition: the method owner, its singleton class
\* for def self.
definitionOwner(ni, ctxOwner, method) ==
    IF method.kind = "self" /\ isClass(ni.gs, methodOwner(ni.gs, ctxOwner))
    THEN Bind(singletonClass(ni.gs, methodOwner(ni.gs, ctxOwner)),
              LAMBDA s : [ni |-> Into(ni, s), owner |-> s.sym])
    ELSE [ni |-> [ni EXCEPT !.violation = @ \/ ~isClass(ni.gs, methodOwner(ni.gs, ctxOwner))],
          owner |-> methodOwner(ni.gs, ctxOwner)]

\* the method symbol of the definition entered under the name, its
\* arguments filled in and its location added
enterDefinition(ni, owner, method, file) ==
    Bind(enterMethodSymbol(ni.gs, Loc(file, method.pos), owner, method.name),
         LAMBDA e :
            Bind(fillInArgs(Into(ni, e), e.sym, method.args, file),
                 LAMBDA n3 : [ni |-> [n3 EXCEPT !.gs = addLoc(@, e.sym, Loc(file, method.pos))],
                              method |-> [method EXCEPT !.symbol = e.sym]]))

\* a prior symbol of another location: that of an intrinsic or of matching
\* arguments is located at the definition as well, another one is renamed
redefine(ni, sym, method, file) ==
    IF isIntrinsic(ni.gs, sym) THEN [ni EXCEPT !.gs = addLoc(@, sym, Loc(file, method.pos))]
    ELSE Bind(paramsMatch(ni, sym, Loc(file, method.pos), method.args),
              LAMBDA pm : IF pm.match
                          THEN [pm.ni EXCEPT !.gs = addLoc(@, sym, Loc(file, method.pos))]
                          ELSE Mangle(pm.ni, sym, method.name))

\* a definition that renames every prior symbol of its name
defineMethodManglesAlways(ni, owner, method, file) ==
    IF findMember(ni.gs, owner, method.name) = 0 THEN enterDefinition(ni, owner, method, file)
    ELSE Bind(Mangle(ni, findMember(ni.gs, owner, method.name), method.name),
              LAMBDA n2 : enterDefinition(n2, owner, method, file))

\* the body of preTransformMethodDef once the owner is known: a method
\* found at the location of the definition is the same definition parsed
\* again
defineMethod(ni, owner, method, file) ==
    IF findMember(ni.gs, owner, method.name) = 0 THEN enterDefinition(ni, owner, method, file)
    ELSE IF Loc(file, method.pos) = SymLoc(ni.gs, findMember(ni.gs, owner, method.name))
    THEN [ni |-> fillInArgs(ni, findMember(ni.gs, owner, method.name), method.args, file),
          method |-> [method EXCEPT !.symbol = findMember(ni.gs, owner, method.name)]]
    ELSE Bind(redefine(ni, findMember(ni.gs, owner, method.name), method, file),
              LAMBDA n2 : enterDefinition(n2, owner, method, file))

\* preTransformMethodDef
preTransformMethodDef(ni, ctxOwner, method, file) ==
    Bind(enterScope(ni),
         LAMBDA n0 : Bind(definitionOwner(n0, ctxOwner, method),
                          LAMBDA o : defineMethod(o.ni, o.owner, method, file)))

\* aliasModuleFunction: the method is aliased into the singleton class of
\* its owner
aliasModuleFunction(ni, loc, method) ==
    Bind(singletonClass(ni.gs, ni.gs.symbols[method].owner),
         LAMBDA s :
            Bind(enterMethodSymbol(s.gs, loc, s.sym, ni.gs.symbols[method].name),
                 LAMBDA e : [ni EXCEPT !.gs = [e.gs EXCEPT !.symbols[e.sym].aliasOf = method],
                                       !.violation = @ \/ s.violation \/ e.violation]))

\* the checks of postTransformMethodDef on the scope left
leftMethod(n0, method) ==
    [n0 EXCEPT !.violation =
                   \/ @
                   \/ n0.scopeStack = <<>>
                   \/ Len(method.args) # Len(n0.gs.symbols[method.symbol].arguments)]

\* a postTransformMethodDef that looks for module_function in every scope
\* around the method
postTransformMethodDefAnyScope(ni, method) ==
    Bind(exitScope(ni),
         LAMBDA n0 :
            IF \E d \in DOMAIN n0.scopeStack : n0.scopeStack[d].moduleFunctionActive
            THEN aliasModuleFunction(leftMethod(n0, method),
                                     SymLoc(n0.gs, method.symbol), method.symbol)
            ELSE leftMethod(n0, method))

\* postTransformMethodDef: the scope is left, and the method is aliased
\* when module_function is active in the scope around it
postTransformMethodDef(ni, method) ==
    Bind(exitScope(ni),
         LAMBDA n0 :
            IF n0.scopeStack # <<>> /\ n0.scopeStack[Len(n0.scopeStack)].moduleFunctionActive
            THEN aliasModuleFunction(leftMethod(n0, method),
                                     SymLoc(n0.gs, method.symbol), method.symbol)
            ELSE leftMethod(n0, method))

\* module_function with arguments: each symbol literal that names a method
\* of the method owner is aliased, the others are reported
RECURSIVE moduleFunctionArgs(_, _, _, _, _)
moduleFunctionArgs(ni, owner, original, i, file) ==
    IF i > Len(original.args) THEN ni
    ELSE Bind(IF original.args[i].tag # "Literal" \/ original.args[i].kind # "symbol"
              THEN Diag(ni, "DynamicDSLInvocation", Loc(file, original.args[i].pos))
              ELSE IF findMember(ni.gs, methodOwner(ni.gs, owner), U(original.args[i].fun)) = 0
              THEN Diag(ni, "MethodNotFound", Loc(file, original.args[i].pos))
              ELSE aliasModuleFunction(ni, Loc(file, original.pos),
                                       findMember(ni.gs, methodOwner(ni.gs, owner),
                                                  U(original.args[i].fun))),
              LAMBDA next : moduleFunctionArgs(next, owner, original, i + 1, file))

\* the flag a visibility call sets
VisibilityFlag(fun) ==
    CASE fun \in {"private", "private_class_method"} -> "private"
      [] fun = "protected" -> "protected"
      [] fun = "public" -> "public"

\* postTransformSend: a visibility call on a method definition sets the
\* flag of the method and leaves the definition in its place; a
\* module_function on self with no argument marks the scope
postTransformSend(ni, owner, original, file) ==
    IF Len(original.args) = 1 /\ original.args[1].tag = "MethodDef"
    THEN IF original.fun \in {"private", "private_class_method", "protected", "public"}
         THEN [ni |-> [ni EXCEPT !.gs = setFlag(@, original.args[1].symbol,
                                                VisibilityFlag(original.fun))],
               tree |-> original.args[1]]
         ELSE IF original.fun = "module_function"
         THEN [ni |-> aliasModuleFunction(ni, Loc(file, original.pos), original.args[1].symbol),
               tree |-> original.args[1]]
         ELSE [ni |-> ni, tree |-> original]
    ELSE IF original.kind = "Self" /\ original.fun = "module_function"
    THEN IF original.args = <<>>
         THEN [ni |-> IF ni.scopeStack = <<>> THEN [ni EXCEPT !.violation = TRUE]
                      ELSE [ni EXCEPT !.scopeStack[Len(ni.scopeStack)].moduleFunctionActive =
                                          TRUE],
               tree |-> original]
         ELSE [ni |-> moduleFunctionArgs(ni, owner, original, 1, file), tree |-> original]
    ELSE [ni |-> ni, tree |-> original]

\* contextClass: the symbol, or the first class among its owners
RECURSIVE contextClass(_, _)
contextClass(gs, ofWhat) ==
    IF isClass(gs, ofWhat) THEN ofWhat
    ELSE IF gs.symbols[ofWhat].name = U("<static-init>")
    THEN contextClass(gs, gs.symbols[gs.symbols[ofWhat].owner].attached)
    ELSE contextClass(gs, gs.symbols[ofWhat].owner)

\* a scope that is not a class is renamed out of the way and a class is
\* entered under its name
assignScope(sq, loc) ==
    IF isClass(sq.ni.gs, sq.sym) THEN [ni |-> sq.ni, sym |-> sq.sym]
    ELSE Bind(Mangle(Diag(sq.ni, "InvalidClassOwner", loc), sq.sym,
                     sq.ni.gs.symbols[sq.sym].name),
              LAMBDA m :
                 Bind(enterClassSymbol(m.gs, loc, m.gs.symbols[sq.sym].owner,
                                       sq.ni.gs.symbols[sq.sym].name),
                      LAMBDA e :
                         Bind(singletonClass(e.gs, e.sym),
                              LAMBDA s : [ni |-> EnteredClass([m EXCEPT !.gs = s.gs,
                                                                        !.violation =
                                                                            \/ @ \/ e.violation
                                                                            \/ s.violation],
                                                              e.sym),
                                          sym |-> e.sym])))

\* a symbol of the name that is not a static field is renamed out of the
\* way
assignTarget(ni, scope, cnst, loc) ==
    IF /\ findMember(ni.gs, scope, cnst) # 0
       /\ ni.gs.symbols[findMember(ni.gs, scope, cnst)].kind # "static_field"
    THEN Mangle(Diag(ni, "ModuleKindRedefinition", loc), findMember(ni.gs, scope, cnst),
                ni.gs.symbols[findMember(ni.gs, scope, cnst)].name)
    ELSE ni

\* the static field entered in the scope
assignField(n1, scope, asgn, cnst, loc) ==
    Bind(enterStaticFieldSymbol(n1.gs, loc, scope, cnst),
         LAMBDA e : [ni |-> Into(n1, e),
                     tree |-> [asgn EXCEPT !.args[1] = MKConstantLit(e.sym, asgn.args[1].pos),
                                           !.symbol = e.sym]])

\* an owner that lets every constant assignment through
forbidNothing(ni, owner, loc) == ni

\* an assignment whose owner is neither a class nor synthesized by the DSL
\* pass is reported
forbidDynamicConstant(ni, owner, loc) ==
    IF ~isClass(ni.gs, owner) /\ "dsl_synthesized" \notin ni.gs.symbols[owner].flags
    THEN Diag(ni, "DynamicConstantAssignment", loc)
    ELSE ni

\* fillAssign: the static field of a constant assignment is entered in the
\* scope its left-hand side names; an assignment in a method is reported
fillAssign(ni, owner, asgn, file) ==
    Bind(squashSegments(forbidDynamicConstant(ni, owner, Loc(file, asgn.pos)),
                        contextClass(ni.gs, owner), asgn.args[1], Len(asgn.args[1].path) - 1,
                        file),
         LAMBDA sq :
            Bind(assignScope(sq, Loc(file, asgn.pos)),
                 LAMBDA sc :
                    Bind(assignTarget(sc.ni, sc.sym,
                                      asgn.args[1].path[Len(asgn.args[1].path)],
                                      Loc(file, asgn.pos)),
                         LAMBDA n1 :
                            assignField(n1, sc.sym, asgn,
                                        asgn.args[1].path[Len(asgn.args[1].path)],
                                        Loc(file, asgn.pos)))))

\* handleAssignment: a type_alias marks the static field
handleAssignment(ni, owner, asgn, file) ==
    Bind(fillAssign(ni, owner, asgn, file),
         LAMBDA ret : IF /\ asgn.args[2].fun = "type_alias"
                         /\ ret.ni.gs.symbols[ret.tree.symbol].kind = "static_field"
                      THEN [ret EXCEPT !.ni.gs = setFlag(@, ret.tree.symbol, "type_alias")]
                      ELSE ret)

\* the type member of a name among the type members of a class
typeMember(gs, onSymbol, nm) ==
    LET found == {s \in DOMAIN gs.symbols :
                     /\ gs.symbols[s].kind = "type_member" /\ gs.symbols[s].owner = onSymbol
                     /\ gs.symbols[s].name = nm} IN
    IF found = {} THEN 0 ELSE MinOf(found)

\* the assignment of T.type_alias(T.untyped) a wrong type definition is
\* turned into
UntypedAlias(asgn) == [asgn EXCEPT !.args[2] = MKSend("T", "type_alias", <<>>, asgn.pos)]

\* the variance the first argument of type_member names
VarianceOf(send) ==
    IF send.args = <<>> THEN "Invariant"
    ELSE IF send.args[1].tag = "Literal" /\ send.args[1].kind = "symbol"
    THEN CASE send.args[1].fun = "covariant" -> "CoVariant"
           [] send.args[1].fun = "contravariant" -> "ContraVariant"
           [] OTHER -> "Invariant"
    ELSE "Invariant"

\* whether the first argument of type_member is reported
VarianceRejected(send) ==
    /\ send.args # <<>>
    /\ IF send.args[1].tag = "Literal" /\ send.args[1].kind = "symbol"
       THEN send.args[1].fun \notin {"covariant", "contravariant", "invariant"}
       ELSE Len(send.args) # 1 \/ send.args[1].tag # "Hash"

\* a check that lets every definition of a type member through
isDuplicateNever(gs, onSymbol, nm, loc) == FALSE

\* whether a type member of the name was defined at another location
isDuplicate(gs, onSymbol, nm, loc) ==
    /\ typeMember(gs, onSymbol, nm) # 0
    /\ SymLoc(gs, typeMember(gs, onSymbol, nm)) # loc

\* the flags of the bounds of a hash argument
boundFlags(gs, sym, key) ==
    IF key = "fixed" THEN setFlag(gs, sym, "fixed")
    ELSE IF key \in {"lower", "upper"} THEN setFlag(gs, sym, "bounded")
    ELSE gs

\* the bounds checked: only fixed is supported, and it is required
checkBounds(n1, sym, key, asgn, loc) ==
    IF ("fixed" \in n1.gs.symbols[sym].flags) # ("bounded" \in n1.gs.symbols[sym].flags)
    THEN [ni |-> IF "bounded" \in n1.gs.symbols[sym].flags
                 THEN Diag(n1, "InvalidTypeDefinition", loc) ELSE n1,
          tree |-> IF key = "fixed"
                   THEN [asgn EXCEPT !.args[1] = MKConstantLit(sym, asgn.args[1].pos)]
                   ELSE asgn]
    ELSE [ni |-> Diag(IF "bounded" \in n1.gs.symbols[sym].flags
                      THEN Diag(n1, "InvalidTypeDefinition", loc) ELSE n1,
                      "InvalidTypeDefinition", loc),
          tree |-> MKEmptyTree]

\* the end of handleTypeMemberDefinition: the bounds of the hash argument;
\* a definition with no hash is replaced by the empty tree
typeMemberBounds(ni, sym, send, asgn, file) ==
    IF send.args = <<>> \/ send.args[Len(send.args)].tag # "Hash"
    THEN [ni |-> ni, tree |-> MKEmptyTree]
    ELSE Bind([ni EXCEPT !.gs = boundFlags(@, sym, send.args[Len(send.args)].fun)],
              LAMBDA n1 : checkBounds(n1, sym, send.args[Len(send.args)].fun, asgn,
                                      Loc(file, send.pos)))

\* a symbol of the name at another location is renamed out of the way
renameOld(ni, scope, cnst, loc, diagLoc) ==
    IF findMember(ni.gs, scope, cnst) # 0 /\ SymLoc(ni.gs, findMember(ni.gs, scope, cnst)) # loc
    THEN Mangle(Diag(ni, "InvalidTypeDefinition", diagLoc), findMember(ni.gs, scope, cnst),
                cnst)
    ELSE ni

\* type_template: the static field of the name in the class is an alias of
\* the type member of the singleton class
templateAlias(n3, owner, member, cnst, loc, diagLoc) ==
    Bind(renameOld(n3, enclosingClass(n3.gs, owner), cnst, loc, diagLoc),
         LAMBDA n4 :
            Bind(enterStaticFieldSymbol(n4.gs, loc, enclosingClass(n3.gs, owner), cnst),
                 LAMBDA alias : [n4 EXCEPT !.gs = [alias.gs EXCEPT
                                                      !.symbols[alias.sym].aliasOf = member],
                                           !.violation = @ \/ alias.violation]))

\* the type member entered on the class, or on its singleton class
enterMember(n1, owner, onSymbol, asgn, file) ==
    Bind(renameOld(n1, onSymbol, asgn.args[1].path[Len(asgn.args[1].path)],
                   Loc(file, asgn.pos), Loc(file, asgn.args[1].pos)),
         LAMBDA n2 :
            Bind(enterTypeMember(n2.gs, Loc(file, asgn.pos), onSymbol,
                                 asgn.args[1].path[Len(asgn.args[1].path)],
                                 VarianceOf(asgn.args[2])),
                 LAMBDA e :
                    Bind(IF asgn.args[2].fun = "type_template"
                         THEN templateAlias(Into(n2, e), owner, e.sym,
                                            asgn.args[1].path[Len(asgn.args[1].path)],
                                            Loc(file, asgn.pos), Loc(file, asgn.args[1].pos))
                         ELSE Into(n2, e),
                         LAMBDA n5 : typeMemberBounds(n5, e.sym, asgn.args[2], asgn, file))))

\* the definition on the symbol it is for
defineMember(n1, owner, onSymbol, asgn, file) ==
    IF isDuplicate(n1.gs, onSymbol, asgn.args[1].path[Len(asgn.args[1].path)],
                   Loc(file, asgn.pos))
    THEN [ni |-> Diag(n1, "InvalidTypeDefinition", Loc(file, asgn.args[1].pos)),
          tree |-> MKEmptyTree]
    ELSE enterMember(n1, owner, onSymbol, asgn, file)

\* handleTypeMemberDefinition
handleTypeMemberDefinition(ni, owner, asgn, file) ==
    IF ~isClass(ni.gs, owner)
    THEN [ni |-> Diag(ni, "InvalidTypeDefinition", Loc(file, asgn.args[2].pos)),
          tree |-> MKEmptyTree]
    ELSE IF owner = RootSym
    THEN handleAssignment(Diag(ni, "RootTypeMember", Loc(file, asgn.args[2].pos)), owner,
                          UntypedAlias(asgn), file)
    ELSE Bind(IF asgn.args[2].fun = "type_template" THEN singletonClass(ni.gs, owner)
              ELSE [gs |-> ni.gs, sym |-> owner, violation |-> FALSE],
              LAMBDA on :
                 IF Len(asgn.args[2].args) > 2
                 THEN handleAssignment(Diag(Into(ni, on), "InvalidTypeDefinition",
                                            Loc(file, asgn.args[2].pos)),
                                       owner, UntypedAlias(asgn), file)
                 ELSE Bind(IF VarianceRejected(asgn.args[2])
                           THEN Diag(Into(ni, on), "InvalidTypeDefinition",
                                     Loc(file, asgn.args[2].pos))
                           ELSE Into(ni, on),
                           LAMBDA n1 : defineMember(n1, owner, on.sym, asgn, file)))

\* postTransformAssign
postTransformAssign(ni, owner, asgn, file) ==
    IF asgn.args[1].tag # "UnresolvedConstantLit" THEN [ni |-> ni, tree |-> asgn]
    ELSE IF asgn.args[2].tag # "Send" THEN fillAssign(ni, owner, asgn, file)
    ELSE IF asgn.args[2].kind # "Self" THEN handleAssignment(ni, owner, asgn, file)
    ELSE IF asgn.args[2].fun \in {"type_template", "type_member"}
    THEN handleTypeMemberDefinition(ni, owner, asgn, file)
    ELSE fillAssign(ni, owner, asgn, file)

(***************************************************************************)
(* ast::TreeMap::apply with the NameInserter: a node is handled before its *)
(* children where the NameInserter has a preTransform for its kind, and    *)
(* after them where it has a postTransform; the body of a ClassDef or a    *)
(* MethodDef is walked with the symbol of the definition as the owner.     *)
(***************************************************************************)
RECURSIVE mapIt(_, _, _, _)
RECURSIVE mapAll(_, _, _, _, _)
\* the nodes of a sequence from the i-th on, one after the other
mapAll(r, owner, trees, i, file) ==
    IF i > Len(trees) THEN r
    ELSE Bind(mapIt(r.ni, owner, trees[i], file),
              LAMBDA m : mapAll([ni |-> m.ni, trees |-> Append(r.trees, m.tree)], owner, trees,
                                i + 1, file))

mapIt(ni, owner, tree, file) ==
    CASE tree.tag = "ClassDef" ->
            Bind(preTransformClassDef(ni, owner, tree, file),
                 LAMBDA pre :
                    Bind(mapAll([ni |-> pre.ni, trees |-> <<>>], pre.klass.symbol, pre.klass.rhs,
                                1, file),
                         LAMBDA body :
                            postTransformClassDef(body.ni, [pre.klass EXCEPT !.rhs = body.trees],
                                                  file)))
      [] tree.tag = "MethodDef" ->
            Bind(preTransformMethodDef(ni, owner, tree, file),
                 LAMBDA pre :
                    Bind(mapAll([ni |-> pre.ni, trees |-> <<>>], pre.method.symbol,
                                pre.method.rhs, 1, file),
                         LAMBDA body :
                            [ni |-> postTransformMethodDef(body.ni, [pre.method EXCEPT
                                                                        !.rhs = body.trees]),
                             tree |-> [pre.method EXCEPT !.rhs = body.trees]]))
      [] tree.tag = "Send" ->
            Bind(mapAll([ni |-> ni, trees |-> <<>>], owner, tree.args, 1, file),
                 LAMBDA args :
                    postTransformSend(args.ni, owner, [tree EXCEPT !.args = args.trees], file))
      [] tree.tag = "Assign" ->
            Bind(mapIt(ni, owner, tree.args[2], file),
                 LAMBDA value :
                    postTransformAssign(value.ni, owner, [tree EXCEPT !.args[2] = value.tree],
                                        file))
      [] OTHER -> [ni |-> ni, tree |-> tree]

\* Namer::run: a NameInserter over the NamerCtx walks the tree from root
Namer_run(gs, namerCtx, tree, file) == mapIt(NameInserter(gs, namerCtx), RootSym, tree, file)

(***************************************************************************)
(* The sources the namer is run on, and the trees the desugarer makes of   *)
(* them: each statement has its position in the file.                      *)
(***************************************************************************)
\* a class or module of a one-segment name
Cls(kind, c, rhs, pos) == MKClassDef(kind, MKConstant("", <<K(c)>>, pos), rhs, pos)

\* a method with positional arguments, a method with one argument of a flag
Def(nm, locals, pos) ==
    MKMethodDef(U(nm), [i \in DOMAIN locals |-> ParsedArg(U(locals[i]), "", pos + i)], <<>>, pos)

DefFlag(nm, local, flag, pos) == MKMethodDef(U(nm), <<ParsedArg(U(local), flag, pos + 1)>>, <<>>, pos)

\* an assignment of an integer to a constant, and one of a call on self
AssignInt(c, pos) == MKAssign(MKConstant("", <<K(c)>>, pos), MKInt(pos + 1), pos)

AssignSend(c, fun, args, pos) ==
    MKAssign(MKConstant("", <<K(c)>>, pos), MKSend("Self", fun, args, pos + 1), pos)

\* a call on self
SelfSend(fun, args, pos) == MKSend("Self", fun, args, pos)

\* a reference to a constant
Cnst(c, pos) == MKConstant("", <<K(c)>>, pos)

Sources ==
    [s01 |-> <<Cls("Class", "A", <<>>, 10)>>,
     s02 |-> <<Cls("Class", "A", <<Def("bar", <<>>, 20)>>, 10)>>,
     s03 |-> <<Cls("Class", "Foo", <<Def("bar", <<"x">>, 20)>>, 10)>>,
     s04 |-> <<Cls("Class", "Foo", <<Def("bar", <<"x">>, 20), Def("bar", <<"x", "y">>, 30)>>, 10)>>,
     s05 |-> <<Cls("Class", "Foo", <<Def("bar", <<"x">>, 20), Def("bar", <<"y">>, 30)>>, 10)>>,
     s06 |-> <<Cls("Class", "Foo", <<DefFlag("bar", "k", "keyword", 20),
                                    DefFlag("bar", "j", "keyword", 30)>>, 10)>>,
     s07 |-> <<Cls("Class", "Foo", <<Def("bar", <<"x">>, 20),
                                    DefFlag("bar", "x", "repeated", 30)>>, 10)>>,
     s08 |-> <<AssignInt("FOO", 10)>>,
     s09 |-> <<MKMethodDef(U("bar"), <<>>, <<AssignInt("FOO", 20)>>, 10)>>,
     s10 |-> <<Cls("Class", "Foo", <<AssignSend("X", "type_member",
                                                <<MKSymbol("covariant", 22)>>, 20)>>, 10)>>,
     s11 |-> <<Cls("Class", "Foo", <<AssignSend("X", "type_member",
                                                <<MKSymbol("covariant", 22)>>, 20),
                                    AssignSend("X", "type_member",
                                               <<MKSymbol("covariant", 32)>>, 30)>>, 10)>>,
     s12 |-> <<Cls("Module", "M", <<SelfSend("include", <<Cnst("Enumerable", 21)>>, 20)>>, 10)>>,
     s13 |-> <<Cls("Module", "M", <<SelfSend("include", <<SelfSend("foo", <<>>, 21)>>, 20)>>, 10)>>,
     s14 |-> <<Cls("Class", "Foo", <<SelfSend("final!", <<>>, 20)>>, 10)>>,
     s15 |-> <<Cls("Class", "Foo", <<SelfSend("abstract!", <<>>, 20)>>, 10)>>,
     s16 |-> <<Cls("Class", "Foo", <<SelfSend("interface!", <<>>, 20)>>, 10)>>,
     s17 |-> <<Cls("Module", "M", <<SelfSend("interface!", <<>>, 20)>>, 10)>>,
     s18 |-> <<AssignInt("FOO", 10), Cls("Class", "FOO", <<>>, 20)>>,
     s19 |-> <<Cls("Class", "Foo", <<>>, 10), AssignInt("Foo", 20)>>,
     s20 |-> <<MKClassDef("Class", MKConstant("", <<K("A"), K("Foo")>>, 10), <<>>, 10)>>,
     s21 |-> <<Cls("Module", "A", <<Def("bar", <<>>, 20)>>, 10)>>,
     s22 |-> <<Cls("Module", "M", <<Def("foo", <<>>, 20), SelfSend("module_function", <<>>, 30),
                                    Def("bar", <<>>, 40)>>, 10)>>,
     s23 |-> <<Cls("Class", "Foo", <<SelfSend("include", <<Cnst("A", 21), Cnst("M", 22)>>, 20),
                                    SelfSend("extend", <<Cnst("Enumerable", 31)>>, 30)>>, 10)>>,
     s24 |-> <<Def("foo", <<"x">>, 10)>>,
     s25 |-> <<Cls("Class", "Foo", <<SelfSend("include", <<Cnst("A", 21), Cnst("M", 22)>>, 20),
                                    SelfSend("extend", <<Cnst("M", 31), MKSelf(32),
                                                         Cnst("A", 33)>>, 30),
                                    SelfSend("include", <<Cnst("Enumerable", 41),
                                                          SelfSend("foo", <<>>, 42)>>, 40),
                                    MKSend("Other", "include", <<Cnst("A", 51)>>, 50),
                                    SelfSend("include", <<>>, 60)>>, 10)>>,
     s26 |-> <<Cls("Module", "A",
                   <<Cls("Module", "M",
                         <<Def("foo", <<>>, 31),
                           SelfSend("module_function", <<>>, 32),
                           Def("bar", <<>>, 33),
                           Cls("Class", "Foo", <<Def("x", <<>>, 35)>>, 34),
                           MKMethodDef(U("y"), <<>>, <<Def("k", <<>>, 37)>>, 36),
                           Def("j", <<>>, 38)>>, 30),
                     Def("arg", <<>>, 40)>>, 10)>>,
     s27 |-> <<Cls("Module", "A", <<>>, 10), Cls("Class", "A", <<>>, 20),
               Cls("Module", "A", <<>>, 30), Cls("Class", "M", <<>>, 40)>>]

\* the names of the sources
SourcePool == DOMAIN Sources

\* the sources a second file of a call of name holds
SecondPool == {"s01", "s02", "s03", "s04", "s08", "s18", "s21"}

\* the sources that hold a definition of A at the top level and nothing else
SourcesOfA == {"s01", "s02", "s21"}

\* the tree of a file: the statements of the source in the ClassDef of root
Desugared(src) == MKRoot(Sources[src])

(***************************************************************************)
(* The specification of the namer: a caller names one or two files with    *)
(* pipeline::name, then names a file again, with the same source or        *)
(* another, as incrementalResolve does.                                    *)
(***************************************************************************)
\* the calls of the caller
MaxNamerCalls == 2

\* UnfreezeNameTable and UnfreezeSymbolTable around a run, and their end
Unfrozen(gs) == [gs EXCEPT !.nameTableFrozen = FALSE, !.symbolTableFrozen = FALSE]

Refrozen(gs, before) ==
    [gs EXCEPT !.nameTableFrozen = before.nameTableFrozen,
               !.symbolTableFrozen = before.symbolTableFrozen]

\* what a run of the namer on a file did
RunOf(parsed, before, r) ==
    [file |-> parsed.file, source |-> parsed.source, before |-> before,
     after |-> Refrozen(r.ni.gs, before), diags |-> r.ni.diags, tree |-> r.tree,
     renamed |-> r.ni.renamed, entered |-> r.ni.entered, scopeStack |-> r.ni.scopeStack,
     depth |-> r.ni.depth, violation |-> r.ni.violation,
     classBehaviorLocs |-> r.ni.classBehaviorLocs]

\* a loop that names every tree with the NamerCtx of the trees before it
RECURSIVE NameLoopOneCtx(_, _, _, _)
NameLoopOneCtx(acc, what, i, shared) ==
    IF i > Len(what) THEN acc
    ELSE Bind(Namer_run(Unfrozen(acc.gs), acc.namerCtx, Desugared(what[i].source),
                        what[i].file),
              LAMBDA r :
                 Bind(RunOf(what[i], acc.gs, r),
                      LAMBDA run : NameLoopOneCtx([gs |-> run.after,
                                                   namerCtx |-> run.classBehaviorLocs,
                                                   runs |-> Append(acc.runs, run)],
                                                  what, i + 1, shared)))

\* the loop of name from the i-th tree on: every tree is named with the one
\* NamerCtx (when shared) or with a NamerCtx of its own
RECURSIVE NameLoop(_, _, _, _)
NameLoop(acc, what, i, shared) ==
    IF i > Len(what) THEN acc
    ELSE Bind(Namer_run(Unfrozen(acc.gs), IF shared THEN acc.namerCtx ELSE <<>>,
                        Desugared(what[i].source), what[i].file),
              LAMBDA r :
                 Bind(RunOf(what[i], acc.gs, r),
                      LAMBDA run : NameLoop([gs |-> run.after,
                                             namerCtx |-> run.classBehaviorLocs,
                                             runs |-> Append(acc.runs, run)],
                                            what, i + 1, shared)))

\* the state a loop starts in
NewLoop(gs) == [gs |-> gs, namerCtx |-> <<>>, runs |-> <<>>]

\* the files of a call with their sources
Parsed(file, source) == [file |-> file, source |-> source]

NamerInit ==
    /\ gss = [g \in 0..MaxWorkers |-> IF g = 0 THEN NamerGs ELSE NoGs]
    /\ co = [pc |-> "indexed", calls |-> 0, sources |-> [f \in 1..NamerFiles |-> ""],
             trees |-> [f \in 1..NamerFiles |-> MKEmptyTree], entered |-> {}]
    /\ call = [op |-> "none", runs |-> <<>>]
    /\ opts = CHOOSE o \in OptionsPool : TRUE
    /\ debug_mode = TRUE
    /\ halted = FALSE
    /\ kvstore = <<>>
    /\ fileq = <<>>
    /\ resultq = <<>>
    /\ wk = <<>>
    /\ errorQueue = {}
    /\ hist = NoHist

\* the state after a call that named the files
AfterNaming(op, r) ==
    /\ gss' = [gss EXCEPT ![0] = r.gs]
    /\ call' = [op |-> op, runs |-> r.runs]
    /\ co' = [co EXCEPT !.pc = "named", !.calls = @ + 1,
                        !.sources = [f \in 1..NamerFiles |->
                                        IF \E i \in DOMAIN r.runs : r.runs[i].file = f
                                        THEN r.runs[CHOOSE i \in DOMAIN r.runs :
                                                       r.runs[i].file = f].source
                                        ELSE co.sources[f]],
                        !.trees = [f \in 1..NamerFiles |->
                                      IF \E i \in DOMAIN r.runs : r.runs[i].file = f
                                      THEN r.runs[CHOOSE i \in DOMAIN r.runs :
                                                     r.runs[i].file = f].tree
                                      ELSE co.trees[f]],
                        !.entered = @ \cup UNION {{r.runs[i].entered[j] :
                                                     j \in DOMAIN r.runs[i].entered} :
                                                  i \in DOMAIN r.runs}]
    /\ UNCHANGED <<debug_mode, halted, opts, kvstore, fileq, resultq, wk, errorQueue, hist>>

\* pipeline::name on the first file alone, or on it and a second file
NamerName ==
    /\ co.pc = "indexed"
    /\ \E src \in SourcePool, f \in 1..NamerFiles, src2 \in SecondPool :
          \E what \in {<<Parsed(1, src)>>} \cup
                      (IF f > 1 THEN {<<Parsed(1, src), Parsed(f, src2)>>} ELSE {}) :
             \E r \in {NameLoop(NewLoop(gss[0]), what, 1, TRUE)} :
                AfterNaming("name", r)

\* the vectors of incrementalResolve: one file, named before or not, or the
\* first two files with a definition of A in each
ResolveVectors ==
    {<<Parsed(f, src)>> : f \in 1..2, src \in SourcePool} \cup
    {<<Parsed(1, a), Parsed(2, b)>> : a \in SourcesOfA, b \in SourcesOfA}

\* incrementalResolve on the files of a vector
NamerIncrementalResolve ==
    /\ co.pc = "named"
    /\ co.calls < MaxNamerCalls
    /\ \E what \in ResolveVectors :
          \E r \in {NameLoop(NewLoop(gss[0]), what, 1, FALSE)} :
             AfterNaming("incrementalResolve", r)

NamerNext ==
    \/ NamerName
    \/ NamerIncrementalResolve

SpecNamer == NamerInit /\ [][NamerNext]_vars

(***************************************************************************)
(* Properties of the namer                                                 *)
(***************************************************************************)
\* the diagnostics of a class of a run
DiagsOf(run, what) == {i \in DOMAIN run.diags : run.diags[i].what = what}

\* the class symbols of a name in an owner
ClassesNamed(gs, owner, nm) ==
    {s \in DOMAIN gs.symbols :
        /\ gs.symbols[s].kind = "class"
        /\ gs.symbols[s].owner = owner
        /\ gs.symbols[s].name = nm}

\* the sources of A whose definition holds behaviour

BehaviorOfA == {src \in SourcesOfA : classDefinesBehavior(Sources[src][1])}

\* a call of name on two files that both define A
NamedATwice ==
    /\ call.op = "name"
    /\ Len(call.runs) = 2
    /\ call.runs[1].source \in SourcesOfA
    /\ call.runs[2].source \in SourcesOfA

ClassOf(gs, c) == findMember(gs, RootSym, K(c))

BarOf(gs, c) == IF ClassOf(gs, c) = 0 THEN 0 ELSE findMember(gs, ClassOf(gs, c), U("bar"))

FirstDefSymbol(run) == run.tree.rhs[1].rhs[1].symbol

\* the sources of one class holding one method bar, and the class of each
OneMethodSources == {"s02", "s03", "s21"}

OneMethodClass(src) == IF src = "s03" THEN "Foo" ELSE "A"

\* the run of incrementalResolve in a step that names again, with the same
\* source, the file the call before named last
Reparsed(before, after) ==
    /\ after.op = "incrementalResolve"
    /\ before.op # "none"
    /\ before.runs[Len(before.runs)].file = after.runs[1].file
    /\ before.runs[Len(before.runs)].source = after.runs[1].source

\* the sources that define bar in the class
BarSources(c) == IF c = "Foo" THEN {"s03", "s04", "s05", "s06", "s07"} ELSE {"s02", "s21"}

\* whether no other file than that of the run holds a definition of bar in
\* the class
OnlyFileOfBar(sources, run, c) ==
    \A f \in DOMAIN sources : f # run.file => sources[f] \notin BarSources(c)

\* C22: naming is idempotent on a reparse: when a file of
\* `class Foo; def bar(x); end; end` (or of another class with one method)
\* is named again with the same source, the method symbol is reused, no
\* symbol and no argument is added, nothing is renamed and no
\* RedefinitionOfMethod is reported; when no other file defines the method,
\* the symbol is found at the location of the definition.
C22_ReparseReusesMethodSymbol ==
    [][(Reparsed(call, call') /\ call'.runs[1].source \in OneMethodSources) =>
          LET run == call'.runs[1]
              c == OneMethodClass(run.source)
              bar == BarOf(run.before, c) IN
          /\ bar # 0
          /\ OnlyFileOfBar(co.sources, run, c) => SymLoc(run.before, bar) = Loc(run.file, 20)
          /\ BarOf(run.after, c) = bar
          /\ FirstDefSymbol(run) = bar
          /\ Len(run.after.symbols) = Len(run.before.symbols)
          /\ Len(run.after.symbols[bar].arguments) = Len(run.before.symbols[bar].arguments)
          /\ run.renamed = <<>>
          /\ DiagsOf(run, "RedefinitionOfMethod") = {}]_vars

\* `class Foo; def bar(x); end; end` named, then named again: the method
\* symbol of the tree is the one of before, with its two arguments
C22_Witness ==
    /\ call.op = "incrementalResolve"
    /\ call.runs[1].source = "s03"
    /\ co.calls = 2
    /\ BarOf(call.runs[1].before, "Foo") # 0
    /\ SymLoc(call.runs[1].before, BarOf(call.runs[1].before, "Foo")) = Loc(call.runs[1].file, 20)
    /\ FirstDefSymbol(call.runs[1]) = BarOf(call.runs[1].before, "Foo")
    /\ Len(gss[0].symbols[BarOf(gss[0], "Foo")].arguments) = 2
    /\ Len(call.runs[1].after.symbols) = Len(call.runs[1].before.symbols)

\* the sources of class Foo that define bar twice with different shapes
\* (another arity, another keyword name, a repeated argument), and the one
\* that defines it twice with the same shape
MismatchSources == {"s04", "s06", "s07"}

MatchSources == {"s05"}

\* the symbol the tree of a run holds for the second definition in the class
SecondDefSymbol(run) == run.tree.rhs[1].rhs[2].symbol

\* the renamings of methods in a run
RenamedMethods(run) ==
    {i \in DOMAIN run.renamed : run.after.symbols[run.renamed[i].sym].kind = "method"}

\* a call of name on one file
NamedOne == call.op = "name" /\ Len(call.runs) = 1

MangledOver(gs, sym, origName) ==
    /\ gs.symbols[sym].name \in DOMAIN gs.names
    /\ gs.names[gs.symbols[sym].name].kind = "UNIQUE"
    /\ gs.names[gs.symbols[sym].name].uniqueNameKind = "MangleRename"
    /\ gs.names[gs.symbols[sym].name].original = origName

\* what holds of a symbol renamed in a run, in the state after the run
RenamedWell(run, e) ==
    /\ e.sym \in DOMAIN run.after.symbols
    /\ e.sym \in DOMAIN run.before.symbols =>
          run.after.symbols[e.sym].kind = run.before.symbols[e.sym].kind
    /\ run.after.symbols[e.sym].owner = e.owner
    /\ e.loc # LocNone
    /\ SymLoc(run.after, e.sym) = e.loc
    /\ MangledOver(run.after, e.sym, e.origName)
    /\ \A t \in DOMAIN run.after.symbols :
          (t # e.sym /\ run.after.symbols[t].owner = e.owner) =>
             run.after.symbols[t].name # run.after.symbols[e.sym].name
    /\ findMember(run.after, e.owner, e.origName) # e.sym

\* C24: after a mangle-rename the renamed symbol is still there under its
\* id, with its owner and its definition location; its name is a UNIQUE
\* name of kind MangleRename over the original name that no other symbol of
\* the owner carries, and a lookup of the original name in the owner does
\* not return it.
C24_MangleRenameKeepsSymbolFreshName ==
    \A i \in DOMAIN call.runs :
       \A j \in DOMAIN call.runs[i].renamed : RenamedWell(call.runs[i], call.runs[i].renamed[j])

\* a run renamed a symbol whose owner already held a symbol renamed from
\* the same name
C24_Witness ==
    \E i \in DOMAIN call.runs :
       \E j \in DOMAIN call.runs[i].renamed :
          LET run == call.runs[i]
              e == run.renamed[j] IN
          /\ RenamedWell(run, e)
          /\ \E t \in DOMAIN run.after.symbols :
                /\ t # e.sym
                /\ run.after.symbols[t].owner = e.owner
                /\ MangledOver(run.after, t, e.origName)

\* the static field FOO of an owner
FooField(gs, owner) == findMember(gs, owner, K("FOO"))

\* C25: naming `FOO = 1` at the top level enters a static field FOO under
\* root and reports nothing; a constant assignment in the body of a method
\* (`def bar; FOO = 1; end`) is reported as DynamicConstantAssignment, at
\* the assignment, and the assignments of the other sources, all outside of
\* methods, are not.
C25_TopLevelFieldMethodBodyReported ==
    /\ (NamedOne /\ call.runs[1].source = "s08") =>
          LET run == call.runs[1] IN
          /\ run.diags = <<>>
          /\ FooField(run.before, RootSym) = 0
          /\ FooField(run.after, RootSym) # 0
          /\ run.after.symbols[FooField(run.after, RootSym)].kind = "static_field"
          /\ run.after.symbols[FooField(run.after, RootSym)].owner = RootSym
          /\ run.tree.rhs[1].args[1].tag = "ConstantLit"
          /\ run.tree.rhs[1].args[1].symbol = FooField(run.after, RootSym)
    /\ \A i \in DOMAIN call.runs :
          /\ DiagsOf(call.runs[i], "DynamicConstantAssignment") # {} <=>
                call.runs[i].source = "s09"
          /\ \A d \in DiagsOf(call.runs[i], "DynamicConstantAssignment") :
                call.runs[i].diags[d].loc = Loc(call.runs[i].file, 20)
          /\ Cardinality(DiagsOf(call.runs[i], "DynamicConstantAssignment")) <= 1

\* `FOO = 1` named at the top level: FOO is a static field of root
C25_Witness ==
    /\ NamedOne
    /\ call.runs[1].source = "s08"
    /\ call.runs[1].diags = <<>>
    /\ FooField(gss[0], RootSym) # 0
    /\ gss[0].symbols[FooField(gss[0], RootSym)].kind = "static_field"

\* `def bar; FOO = 1; end` named: the assignment is reported
C25_WitnessMethodBody ==
    /\ NamedOne
    /\ call.runs[1].source = "s09"
    /\ DiagsOf(call.runs[1], "DynamicConstantAssignment") # {}

\* the type members of a class, and those of a name
TypeMembersOf(gs, owner) ==
    {s \in DOMAIN gs.symbols :
        gs.symbols[s].kind = "type_member" /\ gs.symbols[s].owner = owner}

TypeMembersNamed(gs, owner, nm) == {s \in TypeMembersOf(gs, owner) : gs.symbols[s].name = nm}

ModuleTree(run) == run.tree.rhs[1]

\* C27: naming `module M; include Enumerable; end` appends exactly one
\* ancestor to the ancestors of M, the constant Enumerable, and reports
\* nothing; naming `module M; include foo; end` reports AncestorNotConstant
\* once, at the argument, and appends no ancestor.
C27_ConstantAncestorAppendedOtherReported ==
    \A i \in DOMAIN call.runs :
       LET run == call.runs[i] IN
       /\ run.source = "s12" =>
             /\ Len(ModuleTree(run).ancestors) = 1
             /\ ModuleTree(run).ancestors[1].tag = "UnresolvedConstantLit"
             /\ ModuleTree(run).ancestors[1].path = <<K("Enumerable")>>
             /\ ModuleTree(run).singletonAncestors = <<>>
             /\ DiagsOf(run, "AncestorNotConstant") = {}
       /\ run.source = "s13" =>
             /\ ModuleTree(run).ancestors = <<>>
             /\ ModuleTree(run).singletonAncestors = <<>>
             /\ Cardinality(DiagsOf(run, "AncestorNotConstant")) = 1
             /\ \A d \in DiagsOf(run, "AncestorNotConstant") :
                   run.diags[d].loc = Loc(run.file, 21)

\* both modules named, one after the other
C27_Witness ==
    /\ co.calls = 2
    /\ co.sources[1] = "s12"
    /\ call.runs[1].source = "s13"
    /\ call.runs[1].file = 2
    /\ Len(co.trees[1].rhs[1].ancestors) = 1
    /\ ModuleTree(call.runs[1]).ancestors = <<>>
    /\ DiagsOf(call.runs[1], "AncestorNotConstant") # {}

\* whether the symbol is a class with a singleton class: another symbol, a
\* class attached to it
HasSingleton(gs, s) ==
    /\ s \in DOMAIN gs.symbols
    /\ gs.symbols[s].kind = "class"
    /\ gs.symbols[s].singleton # 0
    /\ gs.symbols[s].singleton # s
    /\ gs.symbols[s].singleton \in DOMAIN gs.symbols
    /\ gs.symbols[gs.symbols[s].singleton].kind = "class"
    /\ gs.symbols[gs.symbols[s].singleton].attached = s

\* the singleton classes of a state are those of the next state
SingletonsKept(gs, next) ==
    \A s \in DOMAIN gs.symbols :
       gs.symbols[s].singleton # 0 =>
          /\ HasSingleton(next, s)
          /\ next.symbols[s].singleton = gs.symbols[s].singleton

\* C28: every class or module the namer entered or defined in a call (the
\* symbol of a ClassDef, root among them, the class of a missing segment of
\* a constant path, the class entered again after a mangle-rename) has a
\* singleton class once the call is over, a class symbol other than itself
\* and attached to it; and a singleton class a symbol has, it has in every
\* later state.
C28_EnteredClassesHaveSingletons ==
    /\ [](\A s \in co.entered : HasSingleton(gss[0], s))
    /\ [][SingletonsKept(gss[0], gss[0]')]_vars

\* `class A::Foo; end` named: A, entered for the segment, Foo and root have
\* their singleton classes
C28_Witness ==
    /\ co.sources[1] = "s20"
    /\ co.calls = 1
    /\ {RootSym, ClassOf(gss[0], "A"), findMember(gss[0], ClassOf(gss[0], "A"), K("Foo"))}
          \subseteq co.entered
    /\ Cardinality(co.entered) = 3
    /\ \A s \in co.entered : HasSingleton(gss[0], s)

\* the sources of a class or module whose body is one of final!, abstract!
\* and interface!, the class of each, and the flags of a symbol
DeclaringSources == {"s14", "s15", "s16", "s17"}

DeclaringClass(src) == IF src = "s17" THEN "M" ELSE "Foo"

FlagsOf(gs, s) == gs.symbols[s].flags

SingletonOf(gs, s) == gs.symbols[s].singleton

\* C29: in the body of a class or module, final! sets the final flag and
\* abstract! the abstract flag on the class symbol and on its singleton
\* class; interface! sets the abstract flag on both and the interface flag
\* on the class symbol only, its singleton class is no interface; interface!
\* in a class is reported as InterfaceClass, once, at the call, in a module
\* it is not.
C29_FlagsOnClassAndSingletonInterfaceOnClass ==
    \A i \in DOMAIN call.runs :
       call.runs[i].source \in DeclaringSources =>
          LET run == call.runs[i]
              gs == run.after
              c == ClassOf(gs, DeclaringClass(run.source))
              onClass == FlagsOf(gs, c)
              onSingleton == FlagsOf(gs, SingletonOf(gs, c)) IN
          /\ HasSingleton(gs, c)
          /\ run.source = "s14" => "final" \in onClass /\ "final" \in onSingleton
          /\ run.source = "s15" => "abstract" \in onClass /\ "abstract" \in onSingleton
          /\ run.source \in {"s16", "s17"} =>
                /\ "abstract" \in onClass /\ "abstract" \in onSingleton
                /\ "interface" \in onClass
                /\ "interface" \notin onSingleton
          /\ Cardinality(DiagsOf(run, "InterfaceClass")) = IF run.source = "s16" THEN 1 ELSE 0
          /\ \A d \in DiagsOf(run, "InterfaceClass") : run.diags[d].loc = Loc(run.file, 20)
          /\ run.tree.rhs[1].rhs[1].tag = "Send"

\* `class Foo; interface!; end` named: Foo is abstract and an interface,
\* its singleton class is abstract, and InterfaceClass is reported
C29_Witness ==
    /\ NamedOne
    /\ call.runs[1].source = "s16"
    /\ {"abstract", "interface"} \subseteq FlagsOf(gss[0], ClassOf(gss[0], "Foo"))
    /\ "abstract" \in FlagsOf(gss[0], SingletonOf(gss[0], ClassOf(gss[0], "Foo")))
    /\ DiagsOf(call.runs[1], "InterfaceClass") # {}

\* the stronger statement: interface! sets the interface flag on the class
\* symbol and on its singleton class
C29_InterfaceFlagOnSingleton ==
    \A i \in DOMAIN call.runs :
       call.runs[i].source \in {"s16", "s17"} =>
          LET gs == call.runs[i].after
              c == ClassOf(gs, DeclaringClass(call.runs[i].source)) IN
          /\ "interface" \in FlagsOf(gs, c)
          /\ "interface" \in FlagsOf(gs, SingletonOf(gs, c))

(***************************************************************************)
(* Properties of include and extend, of module_function, of the kind of a  *)
(* class, of the scope stack and of the NamerCtx.                          *)
(***************************************************************************)
\* a sequence from its last element to its first
Backwards(s) == [i \in 1..Len(s) |-> s[Len(s) - i + 1]]

\* whether a line of a class body is an include (or extend) on self that
\* has arguments and no block
IsMixin(line, fun) ==
    /\ line.tag = "Send"
    /\ line.fun = fun
    /\ line.kind = "Self"
    /\ line.args # <<>>
    /\ ~line.block

\* whether an argument names an ancestor: self, or a constant whose scope
\* is made of constants
NamesAncestor(arg) ==
    \/ arg.tag \in {"Self", "ConstantLit"}
    \/ arg.tag = "UnresolvedConstantLit" /\ arg.kind # "dynamic"

\* the ancestors the statements of a body give: statement after statement,
\* the arguments of each from the last to the first
RECURSIVE Mixins(_, _)
Mixins(lines, fun) ==
    Bind(lines,
         LAMBDA ls :
            IF ls = <<>> THEN <<>>
            ELSE (IF IsMixin(Head(ls), fun)
                  THEN SelectSeq(Backwards(Head(ls).args), NamesAncestor)
                  ELSE <<>>) \o Mixins(Tail(ls), fun))

\* the lines of a body the namer did not add for the IDE
OwnLines(lines) == SelectSeq(lines, LAMBDA l : l.tag # "KeepForIDE")

\* the lines of a body that are no include and no extend on self
OtherLines(lines) == SelectSeq(lines, LAMBDA l : ~IsMixin(l, "include") /\ ~IsMixin(l, "extend"))

\* C31: after a file is named, every class or module at the top of the file
\* has the ancestors it was desugared with followed by the valid arguments
\* of its include statements on self, statement after statement, each
\* statement's arguments from the last to the first; the same holds of its
\* singleton ancestors and its extend statements; and no such statement is
\* left in its body, while every other line is.
C31_MixinsAppendedInReverseAndRemoved ==
    \A i \in DOMAIN call.runs :
       \A k \in DOMAIN Sources[call.runs[i].source] :
          Sources[call.runs[i].source][k].tag = "ClassDef" =>
             LET src == Sources[call.runs[i].source][k]
                 named == call.runs[i].tree.rhs[k] IN
             /\ named.tag = "ClassDef"
             /\ named.ancestors = src.ancestors \o Mixins(src.rhs, "include")
             /\ named.singletonAncestors = src.singletonAncestors \o Mixins(src.rhs, "extend")
             /\ \A j \in DOMAIN named.rhs :
                   ~IsMixin(named.rhs[j], "include") /\ ~IsMixin(named.rhs[j], "extend")
             /\ Len(OwnLines(named.rhs)) = Len(OtherLines(src.rhs))

\* the class with two include statements and an extend named: the ancestors
\* are M, A, Enumerable after the one of the desugarer, the singleton
\* ancestors A, self, M, the call that is no constant was reported, and the
\* body holds the include on another receiver and the one with no argument
C31_Witness ==
    \E i \in DOMAIN call.runs :
       /\ call.runs[i].source = "s25"
       /\ [j \in 1..4 |-> call.runs[i].tree.rhs[1].ancestors[j].path] =
             <<<<>>, <<K("M")>>, <<K("A")>>, <<K("Enumerable")>>>>
       /\ Len(call.runs[i].tree.rhs[1].ancestors) = 4
       /\ [j \in 1..3 |-> call.runs[i].tree.rhs[1].singletonAncestors[j].pos] = <<33, 32, 31>>
       /\ DiagsOf(call.runs[i], "AncestorNotConstant") # {}
       /\ [j \in 1..2 |-> OwnLines(call.runs[i].tree.rhs[1].rhs)[j].pos] = <<50, 60>>

\* C32: the key decideStrictLevel looks up for a file of a relative path is
\* the path after `./`, the key for a file of an absolute path is the path
\* as it is; the override the options hold for the file is the one found.
C32_RelativePathLookedUpAfterDotSlash ==
    call.op = "read" =>
       LET path == gss[0].files[call.file].path IN
       /\ call.key.rest = path.rest
       /\ path.prefix = "/" => call.key = path
       /\ path.prefix # "/" => call.key.prefix = "./"
       /\ WrittenKey(call.file) \in DOMAIN opts.strictnessOverrides =>
             /\ call.override = opts.strictnessOverrides[WrittenKey(call.file)]
             /\ call.chosen = opts.strictnessOverrides[WrittenKey(call.file)]

\* a file of a relative path read under an override written after `./`
C32_Witness ==
    /\ call.op = "read"
    /\ gss[0].files[call.file].path.prefix = ""
    /\ call.key.prefix = "./"
    /\ call.override = "Strict"
    /\ call.chosen = "Strict"

\* the stronger statement: the key of every file starts with `./`
C32_EveryKeyStartsWithDotSlash ==
    call.op = "read" => call.key.prefix = "./"

\* the phases of the indexer in their order
PhaseOrder == <<"parser", "desugar", "plugin", "dsl", "local_vars">>

PhaseRank(phase) == CHOOSE k \in DOMAIN PhaseOrder : PhaseOrder[k] = phase

\* the phase a value of stopAfterPhase names
StopPhase(stop) ==
    CASE stop = "PARSER" -> "parser"
      [] stop = "DESUGARER" -> "desugar"
      [] stop = "DSL" -> "dsl"
      [] stop = "LOCAL_VARS" -> "local_vars"

\* the phases a log says ran, in the order they ran
PhaseLog(log) ==
    [i \in DOMAIN SelectSeq(log, LAMBDA e : e.ev = "phase" /\ e.what \in Range(PhaseOrder)) |->
        SelectSeq(log, LAMBDA e : e.ev = "phase" /\ e.what \in Range(PhaseOrder))[i].what]

\* whether the phases ran in the order parse, desugar, plugin, DSL,
\* local-variable resolution, each at most once
InPhaseOrder(phases) ==
    \A i, j \in DOMAIN phases : i < j => PhaseRank(phases[i]) < PhaseRank(phases[j])

\* whether an indexing that no exception left ran every phase up to the
\* last one: the DSL passes unless suppressed, the plugin for a supplied
\* file
RanUpTo(ran, last, skip) ==
    Raised(ran) \/
       \A k \in 1..PhaseRank(last) :
          (\E i \in DOMAIN PhaseLog(ran.log) : PhaseLog(ran.log)[i] = PhaseOrder[k])
             <=> \/ PhaseOrder[k] \in {"parser", "desugar", "local_vars"}
                 \/ PhaseOrder[k] = "dsl" /\ ~skip
                 \/ PhaseOrder[k] = "plugin" /\ ran.file <= NumPaths

\* C33: a file that is neither a cache hit nor Ignore goes through parse,
\* desugar, the plugin (a supplied file), the DSL passes (unless
\* suppressed) and local-variable resolution in this order, and no phase
\* after the one stopAfterPhase names runs on it: with DSL, local-variable
\* resolution does not run.
C33_PhasesInOrderNoneAfterStop ==
    call.op = "index" /\ call.stop # "INIT" =>
       \A i \in DOMAIN call.ran :
          (~call.ran[i].hit /\ gss[0].files[call.ran[i].file].strictLevel # "Ignore") =>
             /\ InPhaseOrder(PhaseLog(call.ran[i].log))
             /\ call.stop = "NONE" => RanUpTo(call.ran[i], "local_vars", opts.skipDSLPasses)
             /\ call.stop \in EarlyStops =>
                   /\ RanUpTo(call.ran[i], StopPhase(call.stop), opts.skipDSLPasses)
                   /\ \A j \in DOMAIN PhaseLog(call.ran[i].log) :
                         PhaseRank(PhaseLog(call.ran[i].log)[j])
                            <= PhaseRank(StopPhase(call.stop))

\* what holds of the phases: they run in order, and nothing runs after
\* the phase stopAfterPhase names but local-variable resolution, which
\* runs before the test for DSL
PhasesInOrderLocalVarsBeforeDSLStop ==
    call.op = "index" /\ call.stop # "INIT" =>
       \A i \in DOMAIN call.ran :
          (~call.ran[i].hit /\ gss[0].files[call.ran[i].file].strictLevel # "Ignore") =>
             /\ InPhaseOrder(PhaseLog(call.ran[i].log))
             /\ call.stop = "NONE" => RanUpTo(call.ran[i], "local_vars", opts.skipDSLPasses)
             /\ call.stop \in EarlyStops \ {"DSL"} =>
                   /\ RanUpTo(call.ran[i], StopPhase(call.stop), opts.skipDSLPasses)
                   /\ \A j \in DOMAIN PhaseLog(call.ran[i].log) :
                         PhaseRank(PhaseLog(call.ran[i].log)[j])
                            <= PhaseRank(StopPhase(call.stop))
             /\ call.stop = "DSL" => RanUpTo(call.ran[i], "local_vars", opts.skipDSLPasses)

(***************************************************************************)
(* The coordinator and its workers under fair scheduling: every worker     *)
(* thread of the pool that can take a step eventually takes it, and so     *)
(* does the coordinator, whose wait on the result queue is timed.          *)
(***************************************************************************)
\* a step of the thread of worker w
WorkerThread(w) ==
    /\ w \in Workers
    /\ WorkerStart(w) \/ WorkerStale(w) \/ WorkerPop(w) \/ WorkerDone(w)

SpecFair ==
    /\ Init
    /\ [][Next]_vars
    /\ \A w \in 1..MaxWorkers : WF_vars(WorkerThread(w))
    /\ WF_vars(CoordMerge)

\* the records of a history that belong to a job, and those of a worker
OfJob(records, j) == SelectSeq(records, LAMBDA e : e.job = j)

OfWorker(records, j, w) == SelectSeq(records, LAMBDA e : e.job = j /\ e.by = w)

\* the tree counts of batches summed
RECURSIVE SumCounts(_)
SumCounts(batches) ==
    IF batches = <<>> THEN 0 ELSE Head(batches).count + SumCounts(Tail(batches))

\* the coordinator is in the loop of mergeIndexResults
InMergeLoop == co.pc = "merge"

\* wait_pop_timed reports done: the loop over the result queue is left
LoopDone == co.pc = "merge" /\ co.merged = co.bound

\* the loop of job j is left
LoopOver(j) == j < co.job \/ co.pc = "returned" \/ LoopDone

\* the files the coordinator queued for the job it waits for
FilesQueued ==
    IF co.pass = 1 THEN Len(co.files) ELSE Len(co.firstPass.pluginGeneratedFiles)

\* a worker pushes at most one batch in a job, none when it indexed no
\* file, and the batch counts the files it indexed
OneBatchOfWhatWasIndexed ==
    \A j \in 1..co.job, w \in Workers :
       /\ Len(OfWorker(hist.pushed, j, w)) <= 1
       /\ OfWorker(hist.popped, j, w) = <<>> => OfWorker(hist.pushed, j, w) = <<>>
       /\ OfWorker(hist.pushed, j, w) # <<>> =>
             OfWorker(hist.pushed, j, w)[1].count = Len(OfWorker(hist.popped, j, w))

\* when the loop of a job is left, every batch pushed was received, every
\* worker that indexed a file has pushed, and the queues are empty
LeftAfterEveryBatch ==
    /\ \A j \in 1..co.job :
          LoopOver(j) =>
             /\ OfJob(hist.received, j) = OfJob(hist.pushed, j)
             /\ \A w \in Workers :
                   OfWorker(hist.popped, j, w) # <<>> => Len(OfWorker(hist.pushed, j, w)) = 1
    /\ LoopDone =>
          /\ resultq = <<>>
          /\ fileq = <<>>
          /\ co.bound = FilesQueued
          /\ SumCounts(OfJob(hist.received, co.job)) = FilesQueued
          /\ Len(OfJob(hist.popped, co.job)) = FilesQueued

\* C34: under fair scheduling the loop of the coordinator over the result
\* queue is left; a worker that indexed no file pushes no batch, a worker
\* that indexed a file pushes one batch, which counts its files; and when
\* the loop is left every batch pushed was received and the counts of the
\* batches received sum to the number of files queued.
C34_MergeLoopTerminatesAfterEveryBatch ==
    /\ [](OneBatchOfWhatWasIndexed /\ LeftAfterEveryBatch)
    /\ InMergeLoop ~> LoopDone

\* the loop is left after one worker of two pushed the one batch and the
\* other, which indexed no file, pushed nothing
C34_Witness ==
    /\ LoopDone
    /\ Len(OfJob(hist.received, co.job)) = 1
    /\ \E w \in Workers : /\ OfWorker(hist.popped, co.job, w) = <<>>
                           /\ OfWorker(hist.pushed, co.job, w) = <<>>
                           /\ wk[w].pc = "done"
                           /\ wk[w].job = co.job

(***************************************************************************)
(* The merges of index and the trees that came from the cache.             *)
(***************************************************************************)
\* where a tree was merged: a later batch of the supplied files, a later
\* batch of the plugin-generated files, the first pass's trees merged with
\* the plugin pass's result
MergeIndexResultsPlaces == {"first_pass", "plugin_pass"}
MergePlaces == MergeIndexResultsPlaces \cup {"first_pass_with_plugin_pass"}

\* the first batch popped becomes the result as it is, with its state
FirstBatchTakenAsIs ==
    (co.pc = "merge" /\ ~co.ret.gs.exists /\ resultq # <<>> /\ resultq' = Tail(resultq))
        => /\ co'.ret.gs = Head(resultq).res.gs
           /\ co'.ret.trees = Head(resultq).res.trees
           /\ hist'.substituted = {}

\* the trees of the merge just done, in the listed places, whose file is
\* marked cachedParseTree did not go through a substitution
CachedNotSubstituted(places) ==
    \A rec \in hist.substituted :
        (rec.where \in places /\ rec.cached) => ~rec.substituted

\* C35: the first batch is taken unchanged with its state as the canonical
\* one, and no tree whose file is marked cachedParseTree goes through a
\* GlobalSubstitution: not in the merge of the first pass, not in the merge
\* of the plugin pass, not when the first pass's trees are merged with the
\* plugin pass's result
C35_CachedTreeNeverSubstituted ==
    /\ []CachedNotSubstituted(MergePlaces)
    /\ [][FirstBatchTakenAsIs]_vars

\* what holds: the same in the two merges of mergeIndexResults
CachedTreeNotSubstitutedByMergeIndexResults ==
    /\ []CachedNotSubstituted(MergeIndexResultsPlaces)
    /\ [][FirstBatchTakenAsIs]_vars

\* a later batch of the first pass held a tree from the cache, left alone,
\* and a tree that was substituted
CachedTreeInLaterBatch ==
    /\ \E rec \in hist.substituted : rec.where = "first_pass" /\ rec.cached /\ ~rec.substituted
    /\ \E rec \in hist.substituted : rec.where = "first_pass" /\ ~rec.cached /\ rec.substituted

\* a tree from the cache among the first pass's trees as the plugin pass ends
CachedTreeInFirstPassWithPlugins ==
    \E rec \in hist.substituted : rec.where = "first_pass_with_plugin_pass" /\ rec.cached

(***************************************************************************)
(* module_function with no argument and the methods it aliases.            *)
(***************************************************************************)
\* a module_function call on self with no argument
IsModuleFunction(line) ==
    /\ line.tag = "Send"
    /\ line.kind = "Self"
    /\ line.fun = "module_function"
    /\ line.args = <<>>

\* the method definitions under the lines of a body, each with whether a
\* module_function call precedes it among the lines of its own class body
RECURSIVE MethodDefsIn(_, _)
MethodDefsIn(lines, classBody) ==
    Bind(lines,
         LAMBDA ls :
            UNION {CASE ls[j].tag = "MethodDef" ->
                           {[symbol |-> ls[j].symbol, pos |-> ls[j].pos,
                             after |-> classBody /\ \E k \in 1..(j - 1) :
                                                       IsModuleFunction(ls[k])]}
                               \cup MethodDefsIn(ls[j].rhs, FALSE)
                     [] ls[j].tag = "ClassDef" -> MethodDefsIn(ls[j].rhs, TRUE)
                     [] OTHER -> {} : j \in DOMAIN ls})

\* the alias of the method in the singleton class of its owner, if any
ModuleFunctionAliases(gs, method) ==
    {s \in DOMAIN gs.symbols :
        /\ gs.symbols[s].kind = "method"
        /\ gs.symbols[s].aliasOf = method
        /\ gs.symbols[s].name = gs.symbols[method].name
        /\ gs.symbols[s].owner = gs.symbols[gs.symbols[method].owner].singleton}

\* any symbol that is an alias of the method
AliasesOf(gs, method) == {s \in DOMAIN gs.symbols : gs.symbols[s].aliasOf = method}

\* C36: after a file is named, every method defined directly in a class or
\* module body after a module_function call with no argument on self in
\* that body has an alias in the singleton class of its owner, and every
\* other method of the file (defined before the call, in a body around or
\* inside the one of the call, or inside the body of another method) has no
\* alias that it did not have before the run.
C36_ModuleFunctionAliasesLaterMethodsOfItsBody ==
    \A i \in DOMAIN call.runs :
       \A d \in MethodDefsIn(<<call.runs[i].tree>>, FALSE) :
          /\ d.symbol \in DOMAIN call.runs[i].after.symbols
          /\ d.after => ModuleFunctionAliases(call.runs[i].after, d.symbol) # {}
          /\ ~d.after => AliasesOf(call.runs[i].after, d.symbol)
                            \subseteq DOMAIN call.runs[i].before.symbols

\* the module with a method before the call, and after it a method, a class
\* with a method, a method with a method in its body and a last method, in a
\* module with a method of its own: the three methods of the module after
\* the call are aliased and no other method is
C36_Witness ==
    \E i \in DOMAIN call.runs :
       /\ call.runs[i].source = "s26"
       /\ {d.pos : d \in {e \in MethodDefsIn(<<call.runs[i].tree>>, FALSE) :
                             AliasesOf(call.runs[i].after, e.symbol) # {}}} = {33, 36, 38}
       /\ {d.pos : d \in MethodDefsIn(<<call.runs[i].tree>>, FALSE)}
             = {31, 33, 35, 36, 37, 38, 40}

(***************************************************************************)
(* The kind of a class symbol, class or module.                            *)
(***************************************************************************)
\* the class and module definitions under the lines of a body, in the
\* order the walk enters them
RECURSIVE ClassDefsIn(_)
ClassDefsIn(lines) ==
    Bind(lines,
         LAMBDA ls :
            IF ls = <<>> THEN <<>>
            ELSE (IF Head(ls).tag = "ClassDef"
                  THEN <<[symbol |-> Head(ls).symbol, kind |-> Head(ls).kind,
                          pos |-> Head(ls).pos]>> \o ClassDefsIn(Head(ls).rhs)
                  ELSE IF Head(ls).tag = "MethodDef" THEN ClassDefsIn(Head(ls).rhs)
                  ELSE <<>>) \o ClassDefsIn(Tail(ls)))

\* the kind a definition gives
KindOf(def) == IF def.kind = "Module" THEN "module" ELSE "class"

\* the kind the symbol had when the run began, or "unset"
KindBefore(run, sym) ==
    IF sym \in DOMAIN run.before.symbols THEN run.before.symbols[sym].moduleKind ELSE "unset"

\* the kind first set on the symbol of the j-th definition of a run: the
\* one it had before the run, or the one of the first definition of the
\* run for that symbol
KindFirstSet(run, defs, j) ==
    IF KindBefore(run, defs[j].symbol) # "unset" THEN KindBefore(run, defs[j].symbol)
    ELSE KindOf(defs[CHOOSE k \in 1..j : /\ defs[k].symbol = defs[j].symbol
                                         /\ \A h \in 1..(k - 1) :
                                               defs[h].symbol # defs[j].symbol])

\* the definitions of a run that are of the other kind than the one first
\* set on their symbol
OfOtherKind(run) ==
    LET defs == ClassDefsIn(run.tree.rhs) IN
    {j \in DOMAIN defs : KindOf(defs[j]) # KindFirstSet(run, defs, j)}

\* C37: a run of the namer changes the kind of no class symbol that had one,
\* the symbol of every class or module definition of the file has after the
\* run the kind that was first set on it, and each definition of the other
\* kind is reported as a ModuleKindRedefinition at its location.
C37_KindOfClassStaysAsFirstSet ==
    \A i \in DOMAIN call.runs :
       LET run == call.runs[i]
           defs == ClassDefsIn(run.tree.rhs) IN
       /\ \A s \in DOMAIN run.before.symbols :
             run.before.symbols[s].moduleKind # "unset"
                => run.after.symbols[s].moduleKind = run.before.symbols[s].moduleKind
       /\ \A j \in DOMAIN defs :
             /\ run.after.symbols[defs[j].symbol].moduleKind = KindFirstSet(run, defs, j)
             /\ j \in OfOtherKind(run)
                   => \E d \in DiagsOf(run, "ModuleKindRedefinition") :
                         run.diags[d].loc = Loc(run.file, defs[j].pos)

\* a file with module A, class A, module A, class M is named after A was
\* defined as a class and M as a module in an earlier run: the first, the
\* third and the fourth definition are reported, A is a class and M a module
C37_Witness ==
    \E i \in DOMAIN call.runs :
       LET run == call.runs[i]
           defs == ClassDefsIn(run.tree.rhs) IN
       /\ run.source = "s27"
       /\ KindBefore(run, defs[1].symbol) = "class"
       /\ KindBefore(run, defs[4].symbol) = "module"
       /\ OfOtherKind(run) = {1, 3, 4}
       /\ run.after.symbols[defs[1].symbol].moduleKind = "class"
       /\ run.after.symbols[defs[4].symbol].moduleKind = "module"
       /\ Cardinality(DiagsOf(run, "ModuleKindRedefinition")) = 3

\* the same file named first: A is a module from its first definition on,
\* and the second definition alone is reported
C37_WitnessFirstInFile ==
    \E i \in DOMAIN call.runs :
       /\ call.runs[i].source = "s27"
       /\ KindBefore(call.runs[i], ClassDefsIn(call.runs[i].tree.rhs)[1].symbol) = "unset"
       /\ OfOtherKind(call.runs[i]) = {2}

(***************************************************************************)
(* The scope stack of the NameInserter.                                    *)
(***************************************************************************)
\* the depths of the stack a walk of the lines goes through when it starts
\* with d frames: one more on entering a class, module or method, the
\* lines of its body, and d again on leaving it
RECURSIVE DepthsOf(_, _)
DepthsOf(lines, d) ==
    Bind(lines,
         LAMBDA ls :
            IF ls = <<>> THEN <<>>
            ELSE (IF Head(ls).tag \in {"ClassDef", "MethodDef"}
                  THEN <<d + 1>> \o DepthsOf(Head(ls).rhs, d + 1) \o <<d>>
                  ELSE <<>>) \o DepthsOf(Tail(ls), d))

\* C38: in every run of the namer the scope stack holds a frame whenever
\* its top is read or popped (no read of an empty stack, never fewer than
\* one frame), it grows by one frame on entering each ClassDef and MethodDef
\* and is back at the depth it had before on leaving that node, and at the
\* end of the walk it holds its one initial frame.
C38_ScopeStackBalancedNeverEmpty ==
    \A i \in DOMAIN call.runs :
       LET run == call.runs[i] IN
       /\ ~run.violation
       /\ \A j \in DOMAIN run.depth : run.depth[j] >= 1
       /\ run.depth = <<1>> \o DepthsOf(<<run.tree>>, 1)
       /\ run.scopeStack = <<[moduleFunctionActive |-> FALSE]>>

\* the file with a method in a method in a module in a module: the stack
\* reaches six frames, of root, both modules, the class and its method above
\* the initial one, and ends with one
C38_Witness ==
    \E i \in DOMAIN call.runs :
       /\ call.runs[i].source = "s26"
       /\ call.runs[i].depth = <<1, 2, 3, 4, 5, 4, 5, 4, 5, 6, 5, 4, 5, 6, 5, 4, 5, 4, 3, 4, 3,
                                 2, 1>>
       /\ Len(call.runs[i].scopeStack) = 1

(***************************************************************************)
(* The freeze flags while one file is indexed.                             *)
(***************************************************************************)
\* the phases that enter names
NamingPhases == {"parser", "desugar", "dsl"}

\* the steps of indexOne that enter none
FrozenSteps == {"cache_hit", "cache_miss", "plugin", "local_vars"}

\* the events of the log of one file while a scope is open
InsideScope(log) ==
    Bind(OpenScopes(log, 1, << <<>> >>), LAMBDA open : {k \in DOMAIN log : open[k + 1] # <<>>})

\* the name table is unfrozen only by a scope of a naming phase: a scope is
\* of the name table, the phase that begins under it is a naming phase, and
\* the table is frozen at every event outside such a scope
NamesUnfrozenOnlyToName(log) ==
    \E inside \in {InsideScope(log)} :
       \A k \in DOMAIN log :
          /\ log[k].ev = "acquire" =>
                /\ log[k].what = "names"
                /\ k < Len(log) /\ log[k + 1].ev = "phase" /\ log[k + 1].what \in NamingPhases
          /\ log[k].ev = "phase" => (k \in inside <=> log[k].what \in NamingPhases)
          /\ ~FlagOf(log[k].flags, "names") => k \in inside
          /\ (log[k].ev = "phase" /\ log[k].what \in FrozenSteps)
                => FlagOf(log[k].flags, "names")

\* C39: while index runs indexOne or indexOneWithPlugins on a file, entered
\* with the tables frozen, the symbol table is frozen at every event and at
\* the exit, the name table is unfrozen only under the scope of the parser,
\* the desugarer or the DSL passes, and the cache lookup, the plugin and the
\* resolution of local variables run with the name table frozen.
C39_IndexOneUnfreezesNamesOnlyToName ==
    call.op = "index" =>
       /\ call.before.gs.symbolTableFrozen /\ call.before.gs.nameTableFrozen
       /\ gss[0].symbolTableFrozen /\ gss[0].nameTableFrozen
       /\ \A i \in DOMAIN call.ran :
             /\ \A k \in DOMAIN call.ran[i].log : FlagOf(call.ran[i].log[k].flags, "symbols")
             /\ NamesUnfrozenOnlyToName(call.ran[i].log)

\* a call that took one file from the cache and another through the parser,
\* the desugarer, the plugin, the DSL passes and the resolution of local
\* variables: three scopes of the name table, around three of the phases
C39_Witness ==
    /\ call.op = "index"
    /\ \E i \in DOMAIN call.ran : call.ran[i].hit
    /\ \E i \in DOMAIN call.ran :
          /\ PhaseLog(call.ran[i].log) = PhaseOrder
          /\ Cardinality({k \in DOMAIN call.ran[i].log : call.ran[i].log[k].ev = "acquire"}) = 3
          /\ Cardinality(InsideScope(call.ran[i].log)
                            \cap {k \in DOMAIN call.ran[i].log :
                                     call.ran[i].log[k].ev = "phase"}) = 3

(***************************************************************************)
(* The NamerCtx of name and of incrementalResolve.                         *)
(***************************************************************************)
\* the class and module definitions under the lines of a body as the
\* desugarer made them, in the order the walk enters them
RECURSIVE ClassNodesIn(_)
ClassNodesIn(lines) ==
    Bind(lines,
         LAMBDA ls :
            IF ls = <<>> THEN <<>>
            ELSE (IF Head(ls).tag = "ClassDef"
                  THEN <<Head(ls)>> \o ClassNodesIn(Head(ls).rhs)
                  ELSE IF Head(ls).tag = "MethodDef" THEN ClassNodesIn(Head(ls).rhs)
                  ELSE <<>>) \o ClassNodesIn(Tail(ls)))

\* the definitions of a run that define behaviour in a file that is no RBI
\* file
BehaviorDefs(run) ==
    Bind(ClassNodesIn(Sources[run.source]),
         LAMBDA nodes : {j \in DOMAIN nodes : /\ classDefinesBehavior(nodes[j])
                                               /\ ~isRBI(run.before, run.file)})

\* the location first recorded for a symbol in a record, if any
FirstRecorded(locs, sym) ==
    LET found == {k \in DOMAIN locs : locs[k].sym = sym} IN
    IF found = {} THEN LocNone ELSE locs[MinOf(found)].loc

\* the locations at which a run reported MultipleBehaviorDefs
ReportedBehavior(run) == {run.diags[d].loc : d \in DiagsOf(run, "MultipleBehaviorDefs")}

\* the record a run of a call began with: the one the run before it left,
\* when the call shares it
SharedBefore(runs, i) == IF i = 1 THEN <<>> ELSE runs[i - 1].classBehaviorLocs

\* C40: incrementalResolve names every file with a record of its own (the
\* record of a run holds locations of its file only) and reports no
\* MultipleBehaviorDefs, whatever the files of the vector and the files named
\* before define; name hands one record from file to file, and a file
\* reports MultipleBehaviorDefs at each of its definitions of behaviour
\* whose symbol was first recorded in another file, and nowhere else.
C40_FreshRecordPerFileInIncrementalResolve ==
    /\ call.op = "incrementalResolve" =>
          \A i \in DOMAIN call.runs :
             /\ ReportedBehavior(call.runs[i]) = {}
             /\ \A k \in DOMAIN call.runs[i].classBehaviorLocs :
                   call.runs[i].classBehaviorLocs[k].loc.file = call.runs[i].file
    /\ call.op = "name" =>
          \A i \in DOMAIN call.runs :
             \E run \in {call.runs[i]} :
             \E defs \in {ClassDefsIn(run.tree.rhs)}, behavior \in {BehaviorDefs(run)} :
             \E late \in {{j \in behavior :
                              FirstRecorded(run.classBehaviorLocs, defs[j].symbol).file
                                 # run.file}} :
             /\ Len(defs) = Len(ClassNodesIn(Sources[run.source]))
             /\ SubSeq(run.classBehaviorLocs, 1, Len(SharedBefore(call.runs, i)))
                   = SharedBefore(call.runs, i)
             /\ \A j \in behavior :
                   FirstRecorded(run.classBehaviorLocs, defs[j].symbol) # LocNone
             /\ ReportedBehavior(run) = {Loc(run.file, defs[j].pos) : j \in late}
             /\ Cardinality(DiagsOf(run, "MultipleBehaviorDefs")) = Cardinality(late)

\* incrementalResolve named two files of its vector that both define
\* behaviour of the same class: each run recorded the class at its own file
C40_Witness ==
    /\ call.op = "incrementalResolve"
    /\ Len(call.runs) = 2
    /\ \E a \in DOMAIN call.runs[1].classBehaviorLocs,
          b \in DOMAIN call.runs[2].classBehaviorLocs :
          /\ call.runs[1].classBehaviorLocs[a].sym = call.runs[2].classBehaviorLocs[b].sym
          /\ call.runs[1].classBehaviorLocs[a].loc.file = 1
          /\ call.runs[2].classBehaviorLocs[b].loc.file = 2

\* name named two files that define behaviour of the same class: the second
\* file reported it, the first did not
C40_WitnessName ==
    /\ call.op = "name"
    /\ Len(call.runs) = 2
    /\ ReportedBehavior(call.runs[1]) = {}
    /\ ReportedBehavior(call.runs[2]) # {}
    /\ Len(call.runs[2].classBehaviorLocs) = 1

\* incrementalResolve named a file that defines behaviour of a class whose
\* behaviour a file named before it defines
C40_WitnessNamedEarlier ==
    /\ call.op = "incrementalResolve"
    /\ \E i \in DOMAIN call.runs :
          \E k \in DOMAIN call.runs[i].classBehaviorLocs :
             \E f \in 1..NamerFiles :
                /\ f # call.runs[i].file
                /\ co.sources[f] \in SourcesOfA \ {"s01"}
                /\ call.runs[i].source \in SourcesOfA \ {"s01"}
====
